---- MODULE Spec2Model ----
(***************************************************************************)
(* Model of the transaction pipeline of download_inbox                     *)
(* (src/transaction_parser.py): the organization mapping store, the        *)
(* per-folder extraction and the per-folder submission.                    *)
(*                                                                         *)
(* Strings whose letter case matters (folder names, mapping keys) are      *)
(* sequences of one-character strings, so that str.lower() is computed.    *)
(* JSON values are tagged records.  The content of a transaction file and  *)
(* the answer of the endpoint are inputs of the step that reads them.      *)
(***************************************************************************)
EXTENDS Integers, Sequences, FiniteSets, TLC

\* ---------------------------------------------------------------- bounds
\* entries of the mapping file before the run
MaxEntries == 1
\* transaction files below the root
MaxFiles == 2
\* direct calls of the store's methods on one parser object
MaxCalls == 3
\* columns of a table handed to find_column_by_names
MaxColumns == 2
\* rows of a table handed to _extract_transactions
MaxRows == 2

\* --------------------------------------------------------------- strings
LowerChar(c) ==
    CASE c = "A" -> "a"
      [] c = "B" -> "b"
      [] c = "C" -> "c"
      [] OTHER -> c

\* str.lower()
Lower(s) == [i \in 1..Len(s) |-> LowerChar(s[i])]

\* folder names and mapping keys of the model
NameAc == <<"A", "c">>
NameacLower == <<"a", "c">>
NameB == <<"b">>
Names == {NameAc, NameacLower, NameB}

\* ------------------------------------------------------------ JSON values
\* the value of the "token" field of a mapping entry, and Optional[str]
NoneVal == [k |-> "none", s |-> ""]
AbsentVal == [k |-> "absent", s |-> ""]
StrVal(s) == [k |-> "str", s |-> s]
EmptyStr == StrVal("")

\* the data of a mapping entry: a JSON object, a JSON string, anything else
DictData(tok, name) == [type |-> "dict", token |-> tok, name |-> name]
StrData(s) == [type |-> "str", token |-> StrVal(s), name |-> ""]
OtherData == [type |-> "other", token |-> AbsentVal, name |-> ""]

\* entry data an operator may have left in the mapping file
Datas ==
    { DictData(AbsentVal, "Org"), DictData(NoneVal, "Org"),
      DictData(EmptyStr, "Org"), DictData(StrVal("tok"), "Org"),
      StrData("tok"), OtherData }

\* {"token": "", "name": ""}
Placeholder == DictData(EmptyStr, "")

\* a dict keeps insertion order: a sequence of entries with distinct keys
Keys(m) == {m[i].key : i \in 1..Len(m)}
HasKey(m, name) == \E i \in 1..Len(m) : m[i].key = name
EntryOf(key, data) == [key |-> key, data |-> data]

\* the entries written in the current scheme, {"token": ..., "name": ...}
RunDatas == { d \in Datas : d.type = "dict" }

RECURSIVE MappingsOfLen(_, _)
MappingsOfLen(n, datas) ==
    IF n = 0 THEN {<<>>}
    ELSE { Append(m, EntryOf(k, d)) :
             m \in MappingsOfLen(n - 1, datas), k \in Names, d \in datas }

\* the mappings of at most MaxEntries entries with distinct keys
InitMappings(datas) ==
    { m \in UNION {MappingsOfLen(n, datas) : n \in 0..MaxEntries} :
        \A i, j \in 1..Len(m) : i # j => m[i].key # m[j].key }

\* ------------------------------------------------------- the mapping file
\* kind: missing | invalid (not JSON) | nonobject (JSON, top level not an
\* object) | object; key: the value under "organization_mappings" (absent,
\* nondict, dict); map: that dict; other: the other top-level members
FileOf(kind, key, map, other) ==
    [kind |-> kind, key |-> key, map |-> map, other |-> other]
MissingFile == FileOf("missing", "absent", <<>>, <<>>)
InvalidFile == FileOf("invalid", "absent", <<>>, <<>>)
NonObjectFile == FileOf("nonobject", "absent", <<>>, <<>>)
MappingFileOf(m) == FileOf("object", "dict", m, <<>>)

\* the mapping files a run of the pipeline starts from: every mapping of at
\* most one entry, the mappings of two keys that differ by case only, and
\* mappings with an entry for each folder on disk
RunMappings ==
    {<<>>}
    \cup { <<EntryOf(k, d)>> : k \in Names, d \in RunDatas }
    \cup { <<EntryOf(ks[1], d1), EntryOf(ks[2], d2)>> :
             ks \in {<<NameAc, NameacLower>>, <<NameacLower, NameAc>>},
             d1 \in {DictData(EmptyStr, "Org"), DictData(StrVal("tok"), "Org")},
             d2 \in {DictData(EmptyStr, "Org"), DictData(StrVal("tok"), "Org")} }
    \cup { <<EntryOf(k, d1), EntryOf(NameB, d2)>> :
             k \in {NameAc, NameacLower},
             d1 \in {DictData(NoneVal, "Org"), DictData(StrVal("tok"), "Org")},
             d2 \in {DictData(NoneVal, "Org"), DictData(StrVal("tok"), "Org")} }

InitFiles(mappings) ==
    { MissingFile, InvalidFile, NonObjectFile,
      FileOf("object", "absent", <<>>, <<>>),
      FileOf("object", "absent", <<>>,
             <<EntryOf(NameacLower, DictData(StrVal("tok"), "Org"))>>),
      FileOf("object", "nondict", <<>>, <<>>) }
    \cup { MappingFileOf(m) : m \in mappings }

VARIABLES
    pc,            \* new | init_failed | idle | run | done | crashed
    mappingFile,   \* the content of the file at _org_mapping_path
    org_mapping,   \* self.org_mapping
    reads,         \* how often the mapping file was opened for reading
    writes,        \* how often save_org_mapping was entered
    lastWrite,     \* none | ok | failed: how the last save ended
    loaded,        \* the mapping load_org_mapping returned to __init__
    calls,         \* direct method calls made so far
    lastCall,      \* the last direct call: operation, argument, result
    rootExists,    \* self.directory_path.exists()
    disk,          \* the transaction files below the root, in glob order
    files,         \* process_directory: the list find_transaction_files gave
    files_by_folder,  \* process_directory: files_by_folder, in insertion order
    cur,           \* process_directory: index of the folder being processed
    fileIdx,       \* _process_folder: index of the file being processed
    step,          \* _process_folder: ensure | parse | submit | report
    stats,         \* _process_folder: stats
    folder_transactions,            \* _process_folder: the folder's batch
    successful_transactions_count,  \* _process_folder
    outcome,       \* what _process_folder printed about the submission
    folder_stats,  \* process_directory: folder_stats, in insertion order
    total_successful_transactions,  \* process_directory
    requests,      \* the requests posted to the endpoint so far
    lastTable,     \* the content of the file the file loop handled last
    lastNet,       \* what the endpoint did with the folder's request
    batch_dirs,    \* the directories of the files whose records are in the batch
    pc2,           \* a second run on the same mapping file: off | new | idle
    org_mapping2,  \* its self.org_mapping
    loaded2,       \* the mapping its __init__ loaded
    writes2,       \* how often its save_org_mapping was entered
    lastWrite2,    \* how its last save ended
    calls2,        \* the calls made on it
    lastWriter     \* the run that opened the mapping file for writing last

storeVars == <<mappingFile, org_mapping, reads, writes, lastWrite, loaded, lastWriter>>
callVars == <<calls, lastCall>>
diskVars == <<rootExists, disk>>
folderVars == <<stats, folder_transactions, successful_transactions_count, outcome,
                lastTable, lastNet, batch_dirs>>
runVars == <<files, files_by_folder, cur, fileIdx, step, folderVars, folder_stats,
             total_successful_transactions, requests>>
run2Vars == <<pc2, org_mapping2, loaded2, writes2, lastWrite2, calls2>>
vars == <<pc, storeVars, callVars, diskVars, runVars, run2Vars>>

\* ------------------------------------------------------ load_org_mapping
\* raised |-> TRUE stands for the AttributeError of data.get on a JSON
\* value that is no dict, which no except clause of the method catches
LoadResult(raised, m) == [raised |-> raised, mapping |-> m]

load_org_mapping(f) ==
    CASE f.kind = "missing" -> LoadResult(FALSE, <<>>)
      [] f.kind = "invalid" -> LoadResult(FALSE, <<>>)
      [] f.kind = "nonobject" -> LoadResult(TRUE, <<>>)
      [] OTHER ->
           IF f.key = "dict" THEN LoadResult(FALSE, f.map)
           ELSE LoadResult(FALSE, <<>>)

\* the file is opened unless Path.exists() is false
LoadReads(f) == IF f.kind = "missing" THEN 0 ELSE 1

\* --------------------------------------------------------- _extract_token
_extract_token(org_data) ==
    CASE org_data.type = "dict" ->
           IF org_data.token.k \in {"absent", "none"} THEN NoneVal
           ELSE org_data.token
      [] org_data.type = "str" -> org_data.token
      [] OTHER -> NoneVal

\* ---------------------------------------------- get_org_id_by_folder_name
\* the lookup with the keys compared as they are stored
RECURSIVE FirstMatchExact(_, _, _)
FirstMatchExact(m, folder_name_lower, i) ==
    IF i > Len(m) THEN 0
    ELSE IF m[i].key = folder_name_lower THEN i
    ELSE FirstMatchExact(m, folder_name_lower, i + 1)

RECURSIVE FirstMatch(_, _, _)
FirstMatch(m, folder_name_lower, i) ==
    IF i > Len(m) THEN 0
    ELSE IF Lower(m[i].key) = folder_name_lower THEN i
    ELSE FirstMatch(m, folder_name_lower, i + 1)

get_org_id_by_folder_name(m, folder_name) ==
    LET i == FirstMatch(m, Lower(folder_name), 1)
    IN  IF i = 0 THEN NoneVal ELSE _extract_token(m[i].data)

\* ---------------------------------------------------- ensure_org_in_mapping
\* ensure_org_in_mapping without its membership test
AlwaysNeedsEntry(m, folder_name) == TRUE

\* "folder_name not in self.org_mapping": the keys are compared as they are
NeedsEntry(m, folder_name) == ~HasKey(m, folder_name)

WithPlaceholder(m, folder_name) == Append(m, EntryOf(folder_name, Placeholder))

\* save_org_mapping dumping the last entry instead of the whole mapping
SaveLastEntryOnly(f, m) ==
    { [file |-> MappingFileOf(<<m[Len(m)]>>), status |-> "ok"],
      [file |-> f, status |-> "failed"],
      [file |-> InvalidFile, status |-> "failed"] }

\* save_org_mapping without its "except Exception": a failure leaves it
SaveRaises(f, m) ==
    { [file |-> MappingFileOf(m), status |-> "ok"],
      [file |-> f, status |-> "raised"],
      [file |-> InvalidFile, status |-> "raised"] }

\* save_org_mapping: the write succeeds, or it fails before the file is
\* opened (file untouched), or it fails after open(..., 'w') truncated it;
\* "except Exception" logs every failure, so no outcome has status "raised"
SaveOutcome(file, status) == [file |-> file, status |-> status]
save_org_mapping(f, m) ==
    { SaveOutcome(MappingFileOf(m), "ok"),
      SaveOutcome(f, "failed"),
      SaveOutcome(InvalidFile, "failed") }

\* ensure_org_in_mapping(folder_name) on the mapping m and the file f: what
\* the mapping and the file may be afterwards
EnsureResult(m, file, status, saved) ==
    [mapping |-> m, file |-> file, status |-> status, saved |-> saved]
ensure_org_in_mapping(m, f, folder_name) ==
    IF NeedsEntry(m, folder_name)
    THEN { EnsureResult(WithPlaceholder(m, folder_name), o.file, o.status, TRUE) :
             o \in save_org_mapping(f, WithPlaceholder(m, folder_name)) }
    ELSE { EnsureResult(m, f, "none", FALSE) }

\* the effect of one call by the first run
EnsureBy1(e) ==
    /\ org_mapping' = e.mapping
    /\ mappingFile' = e.file
    /\ writes' = IF e.saved THEN writes + 1 ELSE writes
    /\ lastWrite' = IF e.saved THEN e.status ELSE lastWrite
    /\ lastWriter' = IF e.saved /\ e.file # mappingFile THEN 1 ELSE lastWriter
    /\ UNCHANGED <<reads, loaded>>

\* ================================================================ tables
\* ================================================== normalize_date_format
\* the text of a date cell is a sequence of tokens: numerals, separator
\* characters, and words that are no part of any date notation
Num(n) == [k |-> "num", c |-> "", n |-> n]
Sep(c) == [k |-> "sep", c |-> c, n |-> 0]
Word(c) == [k |-> "word", c |-> c, n |-> 0]
\* a directive of a strptime format: %Y %m %d %H %M %S %f
Dir(c) == [k |-> "dir", c |-> c, n |-> 0]

YmdDash == <<Dir("Y"), Sep("-"), Dir("m"), Sep("-"), Dir("d")>>
DmySlash == <<Dir("d"), Sep("/"), Dir("m"), Sep("/"), Dir("Y")>>
DmyDot == <<Dir("d"), Sep("."), Dir("m"), Sep("."), Dir("Y")>>
MdySlash == <<Dir("m"), Sep("/"), Dir("d"), Sep("/"), Dir("Y")>>
HM == <<Dir("H"), Sep(":"), Dir("M")>>
HMS == HM \o <<Sep(":"), Dir("S")>>

DATE_FORMATS ==
    << YmdDash \o <<Sep(" ")>> \o HMS,
       YmdDash,
       DmySlash,
       DmyDot,
       MdySlash,
       YmdDash \o <<Sep(" ")>> \o HM,
       DmySlash \o <<Sep(" ")>> \o HM,
       DmyDot \o <<Sep(" ")>> \o HM,
       YmdDash \o <<Sep("T")>> \o HMS,
       YmdDash \o <<Sep("T")>> \o HMS \o <<Sep("Z")>>,
       YmdDash \o <<Sep("T")>> \o HMS \o <<Sep("."), Dir("f"), Sep("Z")>> >>

\* a datetime object; strptime fills the fields a format lacks with these
DateTimeOf(Y, m, d, H, M, S, f) ==
    [Y |-> Y, m |-> m, d |-> d, H |-> H, M |-> M, S |-> S, f |-> f]
DefaultDateTime == DateTimeOf(1900, 1, 1, 0, 0, 0, 0)

DaysInMonth(Y, m) ==
    IF m \in {4, 6, 9, 11} THEN 30
    ELSE IF m = 2 THEN (IF Y % 4 = 0 /\ (Y % 100 # 0 \/ Y % 400 = 0) THEN 29 ELSE 28)
    ELSE 31

\* the values a directive accepts
InRange(dir, n) ==
    CASE dir = "Y" -> n \in 1..9999
      [] dir = "m" -> n \in 1..12
      [] dir = "d" -> n \in 1..31
      [] dir = "H" -> n \in 0..23
      [] dir = "M" -> n \in 0..59
      [] dir = "S" -> n \in 0..61
      [] dir = "f" -> n \in 0..999999
      [] OTHER -> FALSE

\* datetime.strftime: every directive replaced by the numeral of its field
strftime(t, fmt) ==
    [i \in 1..Len(fmt) |-> IF fmt[i].k = "dir" THEN Num(t[fmt[i].c]) ELSE fmt[i]]

Parsed(ok, t) == [ok |-> ok, t |-> t]
\* the field a directive of the format reads, the default without it
FieldOf(str, fmt, dir) ==
    IF \E i \in 1..Len(fmt) : fmt[i] = Dir(dir)
    THEN str[CHOOSE i \in 1..Len(fmt) : fmt[i] = Dir(dir)].n
    ELSE DefaultDateTime[dir]

\* datetime.strptime: ok |-> FALSE stands for ValueError
strptime(str, fmt) ==
    IF /\ Len(str) = Len(fmt)
       /\ \A i \in 1..Len(fmt) :
             IF fmt[i].k = "dir"
             THEN str[i].k = "num" /\ InRange(fmt[i].c, str[i].n)
             ELSE str[i] = fmt[i]
    THEN LET t == [dir \in {"Y", "m", "d", "H", "M", "S", "f"} |->
                      FieldOf(str, fmt, dir)]
         IN  IF t.d <= DaysInMonth(t.Y, t.m) /\ t.S <= 59
             THEN Parsed(TRUE, t)
             ELSE Parsed(FALSE, DefaultDateTime)
    ELSE Parsed(FALSE, DefaultDateTime)

\* datetime.isoformat
isoformat(t) ==
    <<Num(t.Y), Sep("-"), Num(t.m), Sep("-"), Num(t.d), Sep("T"),
      Num(t.H), Sep(":"), Num(t.M), Sep(":"), Num(t.S)>>
    \o (IF t.f # 0 THEN <<Sep("."), Num(t.f)>> ELSE <<>>)

\* Optional[str]: the ISO text, or None
DateOf(none, str) == [none |-> none, s |-> str]
NoDate == DateOf(TRUE, <<>>)

\* a date cell: na is pd.isna (a blank cell), s the text of str()
DateCell(na, str) == [na |-> na, s |-> str]
\* a blank cell, and the text "not-a-date"
BlankDateCell == DateCell(TRUE, <<>>)
NotADateCell == DateCell(FALSE, <<Word("not-a-date")>>)

\* str.strip() on the text of a date cell
RECURSIVE LStripTokens(_)
LStripTokens(str) ==
    IF str # <<>> /\ Head(str) = Sep(" ") THEN LStripTokens(Tail(str)) ELSE str
RECURSIVE RStripTokens(_)
RStripTokens(str) ==
    IF str # <<>> /\ str[Len(str)] = Sep(" ")
    THEN RStripTokens(SubSeq(str, 1, Len(str) - 1)) ELSE str
StripTokens(str) == RStripTokens(LStripTokens(str))

\* pd.to_datetime on a text no format of DATE_FORMATS reads: the empty text
\* gives NaT, a year-first date with slashes is read, other text raises
YmdSlash == <<Dir("Y"), Sep("/"), Dir("m"), Sep("/"), Dir("d")>>
to_datetime(date_str) ==
    IF date_str = <<>> THEN NoDate
    ELSE IF strptime(date_str, YmdSlash).ok
    THEN DateOf(FALSE, isoformat(strptime(date_str, YmdSlash).t))
    ELSE NoDate

\* the loop "for fmt in DATE_FORMATS" from the format at index i on
RECURSIVE TryFormats(_, _)
TryFormats(date_str, i) ==
    IF i > Len(DATE_FORMATS) THEN to_datetime(date_str)
    ELSE IF strptime(date_str, DATE_FORMATS[i]).ok
    THEN DateOf(FALSE, isoformat(strptime(date_str, DATE_FORMATS[i]).t))
    ELSE TryFormats(date_str, i + 1)

normalize_date_format(date_value) ==
    IF date_value.na THEN NoDate
    ELSE TryFormats(StripTokens(date_value.s), 1)

\* a cell of the id_card column: na is pd.isna, s the characters of str()
CardCell(na, s) == [na |-> na, s |-> s]
\* a cell of a numeric column, and a float: k is
\*   num      a float, v its value in hundredths
\*   numtext  the text of a decimal number, as in "12.5"
\*   nan      the float NaN: a blank cell of a numeric column
\*   inf      the float infinity: the cell "inf" of a numeric column
\*   text     text that float() rejects
\*   none     None
NumCell(k, v) == [k |-> k, v |-> v]
RowOf(date, card, price, discount) ==
    [datetime |-> date, id_card |-> card, total_price |-> price,
     total_discount |-> discount]

CardOk ==
    <<"9", "6", "4", "3", "1", "2", "3", "4", "5", "6",
      "7", "8", "9", "0", "1", "2", "3", "4", "5">>
\* "2025-04-13 15:30:45"
GoodDateCell ==
    DateCell(FALSE, strftime(DateTimeOf(2025, 4, 13, 15, 30, 45, 0), DATE_FORMATS[1]))
RowValid ==
    RowOf(GoodDateCell, CardCell(FALSE, CardOk), NumCell("num", 1250), NumCell("num", 0))
RowEmptyCard ==
    RowOf(GoodDateCell, CardCell(TRUE, <<>>), NumCell("num", 1250), NumCell("num", 0))
\* rows that are valid but for the date: "not-a-date" and a blank cell
RowNotADate == [RowValid EXCEPT !.datetime = NotADateCell]
RowBlankDate == [RowValid EXCEPT !.datetime = BlankDateCell]

SemanticColumns ==
    {"datetime", "id_transaction", "card_number", "total_price", "total_discount"}

\* what one transaction file holds: readable is whether _read_transaction_file
\* returns, columns the semantic fields find_column_by_names resolves
TableOf(readable, columns, rows) ==
    [readable |-> readable, columns |-> columns, rows |-> rows]

NoTable == TableOf(FALSE, {}, <<>>)
AcmeTable == TableOf(TRUE, SemanticColumns, <<RowValid, RowEmptyCard>>)
BadDatesTable == TableOf(TRUE, SemanticColumns, <<RowNotADate, RowBlankDate>>)

\* one valid row in a table without a discount column
NoDiscountTable == TableOf(TRUE, SemanticColumns \ {"total_discount"}, <<RowValid>>)
\* one valid row in a table without a card column
NoCardTable == TableOf(TRUE, SemanticColumns \ {"card_number"}, <<RowValid>>)
\* a readable table with every column and no row
EmptyTable == TableOf(TRUE, SemanticColumns, <<>>)

Tables ==
    { NoTable,
      NoDiscountTable,
      NoCardTable,
      EmptyTable,
      TableOf(TRUE, SemanticColumns, <<RowValid>>),
      TableOf(TRUE, SemanticColumns, <<RowEmptyCard>>),
      AcmeTable,
      BadDatesTable }

\* str.strip() on the blanks of the model
RECURSIVE LStrip(_)
LStrip(s) == IF s # <<>> /\ Head(s) = " " THEN LStrip(Tail(s)) ELSE s
RECURSIVE RStrip(_)
RStrip(s) ==
    IF s # <<>> /\ s[Len(s)] = " " THEN RStrip(SubSeq(s, 1, Len(s) - 1)) ELSE s
Strip(s) == RStrip(LStrip(s))

CardLength == 19
CardPrefix == <<"9", "6", "4", "3">>
NoCard == <<"None">>

\* _parse_card_number without its checks: every cell is taken as a card
ParseCardUnchecked(card_number) == Strip(card_number.s)

\* _parse_card_number: the card as a string, or NoCard for None
_parse_card_number(card_number) ==
    IF ~card_number.na /\ Strip(card_number.s) # <<>>
    THEN LET card_number_str == Strip(card_number.s)
         IN  IF /\ Len(card_number_str) = CardLength
                /\ SubSeq(card_number_str, 1, Len(CardPrefix)) = CardPrefix
             THEN card_number_str
             ELSE NoCard
    ELSE NoCard

\* float() that rejects NaN and the infinities as well
ParseFiniteFloat(cell) ==
    IF cell.k \in {"num", "numtext"} THEN NumCell("num", cell.v)
    ELSE NumCell("none", 0)

\* float(x) of _parse_total_price and _parse_total_discount: ValueError
\* gives None (k = "none"); a blank cell is the float NaN and float() keeps it
ParseFloat(cell) ==
    CASE cell.k = "text" -> NumCell("none", 0)
      [] cell.k = "numtext" -> NumCell("num", cell.v)
      [] OTHER -> cell
_parse_total_price(total_price) == ParseFloat(total_price)
_parse_total_discount(total_discount) == ParseFloat(total_discount)

TransactionOf(date, card, price, discount) ==
    [datetime |-> date, card_number |-> card, total_price |-> price,
     total_discount |-> discount]
Skip ==
    [skip |-> TRUE,
     transaction |-> TransactionOf(NoDate, NoCard, NumCell("none", 0), NumCell("none", 0))]

\* a row without a readable date skipped like a row without a card
BuildRequiringDate(row) ==
    LET datetime == normalize_date_format(row.datetime)
        card_number == _parse_card_number(row.id_card)
    IN  IF datetime.none \/ card_number = NoCard
           \/ _parse_total_price(row.total_price).k = "none"
           \/ _parse_total_discount(row.total_discount).k = "none"
        THEN Skip
        ELSE [skip |-> FALSE,
              transaction |-> TransactionOf(datetime, card_number,
                                            _parse_total_price(row.total_price),
                                            _parse_total_discount(row.total_discount))]

\* _build_transaction: skip |-> TRUE stands for raise TransactionSkip
_build_transaction(row) ==
    LET datetime == normalize_date_format(row.datetime)
        card_number == _parse_card_number(row.id_card)
        total_price == _parse_total_price(row.total_price)
        total_discount == _parse_total_discount(row.total_discount)
    IN  IF card_number = NoCard THEN Skip
        ELSE IF total_price.k = "none" THEN Skip
        ELSE IF total_discount.k = "none" THEN Skip
        ELSE [skip |-> FALSE,
              transaction |-> TransactionOf(datetime, card_number, total_price,
                                            total_discount)]

ParseResult(isNone, transactions, extracted, failed) ==
    [isNone |-> isNone, transactions |-> transactions,
     extracted_count |-> extracted, failed_count |-> failed]
NoneResult == ParseResult(TRUE, <<>>, 0, 0)

\* _extract_transactions: the rows in table order
RECURSIVE _extract_transactions(_)
\* the loop left at the first row that is skipped
RECURSIVE ExtractUntilSkip(_)
ExtractUntilSkip(rows) ==
    IF rows = <<>> THEN ParseResult(FALSE, <<>>, 0, 0)
    ELSE LET built == _build_transaction(Head(rows))
             after == ExtractUntilSkip(Tail(rows))
         IN  IF built.skip THEN ParseResult(FALSE, <<>>, 0, 1)
             ELSE [after EXCEPT !.extracted_count = @ + 1,
                                !.transactions = <<built.transaction>> \o @]

_extract_transactions(rows) ==
    IF rows = <<>> THEN ParseResult(FALSE, <<>>, 0, 0)
    ELSE LET before == _extract_transactions(SubSeq(rows, 1, Len(rows) - 1))
             built == _build_transaction(rows[Len(rows)])
         IN  IF built.skip
             THEN [before EXCEPT !.failed_count = @ + 1]
             ELSE [before EXCEPT !.extracted_count = @ + 1,
                                 !.transactions = Append(@, built.transaction)]

\* the test "token == ''" of parse_file_detailed
TokenIsEmpty(token) == token = EmptyStr

\* parse_file_detailed after ensure_org_in_mapping: the lookup, the read,
\* the column check and the extraction
parse_file_detailed(m, folder_name, table) ==
    IF TokenIsEmpty(get_org_id_by_folder_name(m, folder_name)) THEN NoneResult
    ELSE IF ~table.readable THEN NoneResult
    ELSE IF SemanticColumns \ table.columns # {} THEN NoneResult
    ELSE _extract_transactions(table.rows)

\* ========================================================= file discovery
\* a file is known by the directories between the root and itself (none for
\* a file lying in the root) and by its extension
EntryAt(path, ext) == [path |-> path, ext |-> ext]
\* a CSV file
FileAt(path) == EntryAt(path, "csv")
\* the name of the root directory
RootName == <<"r">>
\* file_path.parent.name
ParentName(file) ==
    IF file.path = <<>> THEN RootName ELSE file.path[Len(file.path)]
\* the organization folders on disk
DiskFolders == {NameAc, NameB}
Paths == { <<n>> : n \in DiskFolders }

RECURSIVE DisksOfLen(_)
DisksOfLen(n) ==
    IF n = 0 THEN {<<>>}
    ELSE { Append(d, FileAt(p)) : d \in DisksOfLen(n - 1), p \in Paths }
InitDisks == UNION { DisksOfLen(n) : n \in 0..MaxFiles }

\* a missing root taken as one folder holding one file
FindInMissingRoot(exists, d) == IF exists THEN d ELSE <<FileAt(<<NameB>>)>>

\* "*.csv", "*.xlsx", "*.xls", each known by its extension
SUPPORTED_FILE_PATTERNS == <<"csv", "xlsx", "xls">>

\* Path.glob(pattern) on the root: the matching files lying in the root, and
\* Path.rglob(pattern): the matching files at any depth, in the order of
\* the listing d
RECURSIVE glob(_, _)
glob(d, pattern) ==
    IF d = <<>> THEN <<>>
    ELSE IF Head(d).path = <<>> /\ Head(d).ext = pattern
         THEN <<Head(d)>> \o glob(Tail(d), pattern)
         ELSE glob(Tail(d), pattern)
RECURSIVE rglob(_, _)
rglob(d, pattern) ==
    IF d = <<>> THEN <<>>
    ELSE IF Head(d).ext = pattern
         THEN <<Head(d)>> \o rglob(Tail(d), pattern)
         ELSE rglob(Tail(d), pattern)
\* the files of a list that do not lie in the root
RECURSIVE BelowRoot(_)
BelowRoot(fs) ==
    IF fs = <<>> THEN <<>>
    ELSE IF Head(fs).path # <<>> THEN <<Head(fs)>> \o BelowRoot(Tail(fs))
         ELSE BelowRoot(Tail(fs))

\* the recursive scan taken whole
CollectUnfiltered(d, pattern) == glob(d, pattern) \o rglob(d, pattern)

\* _collect_files_for_pattern
_collect_files_for_pattern(d, pattern) ==
    glob(d, pattern) \o BelowRoot(rglob(d, pattern))

\* find_transaction_files: the files of each pattern in turn
RECURSIVE CollectPatterns(_, _)
CollectPatterns(d, patterns) ==
    IF patterns = <<>> THEN <<>>
    ELSE _collect_files_for_pattern(d, Head(patterns))
           \o CollectPatterns(d, Tail(patterns))
find_transaction_files(exists, d) ==
    IF exists THEN CollectPatterns(d, SUPPORTED_FILE_PATTERNS) ELSE <<>>

\* files_by_folder of process_directory: the keys in insertion order ...
RECURSIVE FolderOrder(_)
FolderOrder(fs) ==
    IF fs = <<>> THEN <<>>
    ELSE LET before == FolderOrder(SubSeq(fs, 1, Len(fs) - 1))
             name == ParentName(fs[Len(fs)])
         IN  IF \E i \in 1..Len(before) : before[i] = name THEN before
             ELSE Append(before, name)
\* ... and the files of one key
RECURSIVE FilesOfFolder(_, _)
FilesOfFolder(fs, name) ==
    IF fs = <<>> THEN <<>>
    ELSE LET rest == FilesOfFolder(Tail(fs), name)
         IN  IF ParentName(Head(fs)) = name THEN <<Head(fs)>> \o rest ELSE rest

\* the loop "for file_path in files: files_by_folder.setdefault(...)"
GroupOf(name, fs) == [name |-> name, files |-> fs]
GroupByFolder(fs) ==
    [i \in 1..Len(FolderOrder(fs)) |->
        GroupOf(FolderOrder(fs)[i], FilesOfFolder(fs, FolderOrder(fs)[i]))]

Folders == [i \in 1..Len(files_by_folder) |-> files_by_folder[i].name]
CurFolder == files_by_folder[cur].name
CurFiles == files_by_folder[cur].files

\* ------------------------------------------------------------- __init__
Construct ==
    /\ pc = "new"
    /\ LET r == load_org_mapping(mappingFile)
       IN  /\ pc' = IF r.raised THEN "init_failed" ELSE "idle"
           /\ org_mapping' = r.mapping
           /\ loaded' = r.mapping
    /\ reads' = reads + LoadReads(mappingFile)
    /\ UNCHANGED <<mappingFile, writes, lastWrite, lastWriter, callVars, diskVars,
                   runVars, run2Vars>>

\* -------------------------------------------- direct calls of the methods
\* inserted: whether the call added an entry to the mapping
CallOf(op, name, result, inserted) ==
    [op |-> op, name |-> name, result |-> result, inserted |-> inserted]
NoCall == CallOf("none", <<>>, NoneVal, FALSE)

\* an exception of save_org_mapping would leave ensure_org_in_mapping
CallEnsure(name) ==
    /\ pc = "idle"
    /\ calls < MaxCalls
    /\ \E e \in ensure_org_in_mapping(org_mapping, mappingFile, name) :
         /\ EnsureBy1(e)
         /\ lastCall' = CallOf("ensure", name, NoneVal, e.saved)
         /\ pc' = IF e.status = "raised" THEN "crashed" ELSE pc
    /\ calls' = calls + 1
    /\ UNCHANGED <<diskVars, runVars, run2Vars>>

CallResolve(name) ==
    /\ pc = "idle"
    /\ calls < MaxCalls
    /\ calls' = calls + 1
    /\ lastCall' = CallOf("resolve", name,
                          get_org_id_by_folder_name(org_mapping, name), FALSE)
    /\ UNCHANGED <<pc, storeVars, diskVars, runVars, run2Vars>>

\* ============================================================= submission
\* JSON values of the response body
JNotList == [isList |-> FALSE, items |-> <<>>]
JList(items) == [isList |-> TRUE, items |-> items]
StatusOf(t, v) == [t |-> t, v |-> v]
\* Python's status == n: True == 1 and False == 0, "1" equals no number
PyEquals(status, n) == status.t \in {"int", "bool"} /\ status.v = n

ResultOf(isDict, success, successes, fail, already_exist) ==
    [isDict |-> isDict, success |-> success, successes |-> successes,
     fail |-> fail, already_exist |-> already_exist]
NoResult == ResultOf(FALSE, JNotList, JNotList, JNotList, JNotList)
\* errors: falsy (absent, null, {}, [], ""), a non-empty dict, or any other
\* truthy value (a list, a string, a number)
ErrorsOf(kind, transactions) == [kind |-> kind, transactions |-> transactions]
NoErrors == ErrorsOf("falsy", JNotList)

BodyOf(isDict, hasStatus, status, result, errors) ==
    [isDict |-> isDict, hasStatus |-> hasStatus, status |-> status,
     result |-> result, errors |-> errors]

SuccessLists == {JNotList, JList(<<>>), JList(<<"t1">>)}
SuccessesLists == {JNotList, JList(<<>>), JList(<<"t2">>)}
OtherLists == {JNotList, JList(<<"t3">>)}
ResultVals ==
    {NoResult} \cup
    { ResultOf(TRUE, a, b, c, d) :
        a \in SuccessLists, b \in SuccessesLists, c \in OtherLists, d \in OtherLists }
\* success ["t1"], fail [], already_exist ["t2"]
OneAcceptedOneDuplicate ==
    ResultOf(TRUE, JList(<<"t1">>), JNotList, JList(<<>>), JList(<<"t2">>))
ErrorsVals ==
    { NoErrors, ErrorsOf("dict", JNotList), ErrorsOf("dict", JList(<<"m1">>)),
      ErrorsOf("other", JNotList) }

\* the bodies the endpoint may answer with; the fields a status does not
\* make _process_folder read are left at one value
Bodies ==
    { BodyOf(FALSE, FALSE, StatusOf("int", 0), NoResult, NoErrors),
      BodyOf(TRUE, FALSE, StatusOf("int", 0), NoResult, NoErrors) }
    \cup { BodyOf(TRUE, TRUE, st, NoResult, e) :
             st \in {StatusOf("int", 0), StatusOf("bool", 0)}, e \in ErrorsVals }
    \cup { BodyOf(TRUE, TRUE, st, r, NoErrors) :
             st \in {StatusOf("int", 1), StatusOf("int", 2)}, r \in ResultVals }
    \cup { BodyOf(TRUE, TRUE, StatusOf("bool", 1),
                  ResultOf(TRUE, JList(<<"t1">>), JNotList, JNotList, JNotList),
                  NoErrors) }
    \cup { BodyOf(TRUE, TRUE, st, NoResult, NoErrors) :
             st \in {StatusOf("int", 3), StatusOf("str", 1)} }
    \cup { BodyOf(TRUE, TRUE, StatusOf("int", 1), OneAcceptedOneDuplicate, NoErrors) }

\* what requests.post, raise_for_status and response.json() come to:
\*   connection_error  requests.post raises, there is no response
\*   http_error        a 4xx or 5xx response, raise_for_status raises HTTPError
\*   bad_json          a response raise_for_status lets pass, json() raises
\*   http_3xx          a 3xx response that is final (no redirect to follow)
\*                     with a JSON body: raise_for_status lets it pass
\*   ok                a 2xx response with a JSON body
NetOf(kind, body) == [kind |-> kind, body |-> body]
\* raise_for_status raises for the status codes 400..599 only
RaiseForStatus(kind) == kind = "http_error"
\* no request was made
NoNet == NetOf("none", BodyOf(FALSE, FALSE, StatusOf("int", 0), NoResult, NoErrors))
NetOutcomes ==
    { NetOf(k, BodyOf(FALSE, FALSE, StatusOf("int", 0), NoResult, NoErrors)) :
        k \in {"connection_error", "http_error", "bad_json"} }
    \cup { NetOf("ok", b) : b \in Bodies }
    \cup { NetOf("http_3xx", b) :
             b \in { BodyOf(FALSE, FALSE, StatusOf("int", 0), NoResult, NoErrors),
                      BodyOf(TRUE, TRUE, StatusOf("int", 1),
                             OneAcceptedOneDuplicate, NoErrors) } }

\* send_transactions: every exception is caught; success only with a body
SendResult(success, response) == [success |-> success, response |-> response]
send_transactions(net) ==
    IF net.kind = "connection_error" THEN SendResult(FALSE, net.body)
    ELSE IF RaiseForStatus(net.kind) THEN SendResult(FALSE, net.body)
    ELSE IF net.kind = "bad_json" THEN SendResult(FALSE, net.body)
    ELSE SendResult(TRUE, net.body)

\* _list
_list(x) == IF x.isList THEN x.items ELSE <<>>

OutcomeOf(class, accepted, rejected, duplicate) ==
    [class |-> class, accepted |-> accepted, rejected |-> rejected,
     duplicate |-> duplicate]
NoOutcome == OutcomeOf("none", 0, 0, 0)

\* the branch of _process_folder that reads the result of send_transactions:
\* raised |-> TRUE is the AttributeError of (errors or {}).get on a value
\* that is no dict; count is successful_transactions_count
Interpreted(raised, count, o) == [raised |-> raised, count |-> count, outcome |-> o]

\* the ids of already_exist counted as accepted as well
ClassifyDuplicatesAccepted(res) ==
    Interpreted(FALSE, Len(_list(res.success)) + Len(_list(res.already_exist)),
        OutcomeOf("classified",
                  Len(_list(res.success)) + Len(_list(res.already_exist)),
                  Len(_list(res.fail)), Len(_list(res.already_exist))))

\* the branch "status in (1, 2)" of _process_folder
Classify(res) ==
    LET success_ids ==
            IF _list(res.success) # <<>> THEN _list(res.success)
            ELSE _list(res.successes)
        fail_ids == _list(res.fail)
        already_exist_ids == _list(res.already_exist)
    IN  Interpreted(FALSE, Len(success_ids),
            OutcomeOf("classified", Len(success_ids),
                      Len(fail_ids), Len(already_exist_ids)))

InterpretResult(result) ==
    IF ~result.success THEN Interpreted(FALSE, 0, OutcomeOf("transport", 0, 0, 0))
    ELSE LET response == result.response
         IN  IF ~response.isDict \/ ~response.hasStatus
             THEN Interpreted(FALSE, 0, OutcomeOf("protocol", 0, 0, 0))
             ELSE LET status == response.status
                      res == IF response.result.isDict THEN response.result ELSE NoResult
                  IN  IF PyEquals(status, 0)
                      THEN IF response.errors.kind = "other"
                           THEN Interpreted(TRUE, 0, OutcomeOf("rejected", 0, 0, 0))
                           ELSE Interpreted(FALSE, 0, OutcomeOf("rejected", 0, 0, 0))
                      ELSE IF PyEquals(status, 1) \/ PyEquals(status, 2)
                      THEN Classify(res)
                      ELSE Interpreted(FALSE, 0, OutcomeOf("unknown_status", 0, 0, 0))

RequestOf(folder, token, transactions) ==
    [folder |-> folder, token |-> token, transactions |-> transactions]

\* ================================================================ the run
StatsOf(processed, success, errors, extracted, failed) ==
    [processed |-> processed, success |-> success, errors |-> errors,
     extracted |-> extracted, failed |-> failed]
ZeroStats == StatsOf(0, 0, 0, 0, 0)

\* the body of the file loop of _process_folder after parse_file_detailed
\* a file without a record list counted like a file without rows
UpdateStatsNoneAsEmpty(st, r) ==
    IF r.extracted_count > 0 \/ (r.extracted_count = 0 /\ r.failed_count = 0)
    THEN [st EXCEPT !.processed = @ + 1, !.success = @ + 1,
                    !.extracted = @ + r.extracted_count,
                    !.failed = @ + r.failed_count]
    ELSE [st EXCEPT !.processed = @ + 1, !.errors = @ + 1,
                    !.extracted = @ + r.extracted_count,
                    !.failed = @ + r.failed_count]

UpdateStats(st, r) ==
    IF ~r.isNone
    THEN IF r.extracted_count > 0 \/ (r.extracted_count = 0 /\ r.failed_count = 0)
         THEN [st EXCEPT !.processed = @ + 1, !.success = @ + 1,
                         !.extracted = @ + r.extracted_count,
                         !.failed = @ + r.failed_count]
         ELSE [st EXCEPT !.processed = @ + 1, !.errors = @ + 1,
                         !.extracted = @ + r.extracted_count,
                         !.failed = @ + r.failed_count]
    ELSE [st EXCEPT !.processed = @ + 1, !.errors = @ + 1]

ReportOf(folder, st, successful) ==
    [folder |-> folder, stats |-> st, successful |-> successful]

\* process_directory up to the folder loop
ProcessDirectory ==
    /\ pc = "idle"
    /\ calls = 0
    /\ pc' = "run"
    /\ files' = find_transaction_files(rootExists, disk)
    /\ files_by_folder' = GroupByFolder(files')
    /\ cur' = 1
    /\ fileIdx' = 1
    /\ step' = "ensure"
    /\ UNCHANGED <<storeVars, callVars, diskVars, folderVars, folder_stats,
                   total_successful_transactions, requests, run2Vars>>

InFolder == pc = "run" /\ cur <= Len(files_by_folder)

\* the batch sent from inside the file loop
AfterFileSubmit == "submit"

\* where the file loop of _process_folder goes after the file at fileIdx
AfterFile == IF fileIdx = Len(CurFiles) THEN "submit" ELSE "ensure"

\* parse_file_detailed, first statement: ensure_org_in_mapping(folder_name);
\* an exception leaving it would be caught by the "except Exception" of the
\* file loop of _process_folder, which counts the file as an error
EnsureStep ==
    /\ InFolder
    /\ step = "ensure"
    /\ \E e \in ensure_org_in_mapping(org_mapping, mappingFile, CurFolder) :
         /\ EnsureBy1(e)
         /\ IF e.status = "raised"
            THEN /\ stats' = [stats EXCEPT !.processed = @ + 1, !.errors = @ + 1]
                 /\ fileIdx' = fileIdx + 1
                 /\ step' = AfterFile
            ELSE /\ step' = "parse"
                 /\ UNCHANGED <<stats, fileIdx>>
    /\ UNCHANGED <<pc, callVars, diskVars, files, files_by_folder, cur, folder_transactions,
                   successful_transactions_count, outcome, lastTable, lastNet,
                   batch_dirs, folder_stats,
                   total_successful_transactions, requests, run2Vars>>

\* the rest of parse_file_detailed and of the loop body of _process_folder
ParseStep ==
    /\ InFolder
    /\ step = "parse"
    /\ \E table \in Tables :
         LET r == parse_file_detailed(org_mapping, CurFolder, table)
         IN  /\ stats' = UpdateStats(stats, r)
             /\ folder_transactions' = folder_transactions \o r.transactions
             /\ lastTable' = table
             /\ batch_dirs' = IF r.transactions # <<>>
                              THEN batch_dirs \cup {CurFiles[fileIdx].path}
                              ELSE batch_dirs
    /\ fileIdx' = fileIdx + 1
    /\ step' = AfterFile
    /\ UNCHANGED <<pc, storeVars, callVars, diskVars, files, files_by_folder, cur,
                   successful_transactions_count, outcome, lastNet, folder_stats,
                   total_successful_transactions, requests, run2Vars>>

\* a batch taken as never empty
BatchNeverEmpty(batch) == FALSE

\* the test "if not folder_transactions" of _process_folder
BatchIsEmpty(batch) == batch = <<>>

\* _process_folder after the file loop: the batch is sent unless it is empty
SubmitStep ==
    /\ InFolder
    /\ step = "submit"
    /\ IF BatchIsEmpty(folder_transactions)
       THEN /\ outcome' = OutcomeOf("skipped", 0, 0, 0)
            /\ step' = "report"
            /\ UNCHANGED <<pc, successful_transactions_count, requests, lastNet>>
       ELSE /\ requests' = Append(requests,
                 RequestOf(CurFolder, get_org_id_by_folder_name(org_mapping, CurFolder),
                           folder_transactions))
            /\ \E net \in NetOutcomes :
                 LET i == InterpretResult(send_transactions(net))
                 IN  /\ outcome' = i.outcome
                     /\ successful_transactions_count' = i.count
                     /\ lastNet' = net
                     /\ pc' = IF i.raised THEN "crashed" ELSE pc
                     /\ step' = IF i.raised THEN step ELSE "report"
    /\ lastTable' = NoTable
    /\ UNCHANGED <<storeVars, callVars, diskVars, files, files_by_folder, cur, fileIdx, stats,
                   folder_transactions, batch_dirs, folder_stats,
                   total_successful_transactions, run2Vars>>

\* _process_folder returns; process_directory folds the folder into its totals
ReportStep ==
    /\ InFolder
    /\ step = "report"
    /\ folder_stats' = Append(folder_stats,
                              ReportOf(CurFolder, stats, successful_transactions_count))
    /\ total_successful_transactions' =
           total_successful_transactions + successful_transactions_count
    /\ cur' = cur + 1
    /\ fileIdx' = 1
    /\ step' = "ensure"
    /\ stats' = ZeroStats
    /\ folder_transactions' = <<>>
    /\ successful_transactions_count' = 0
    /\ outcome' = NoOutcome
    /\ lastNet' = NoNet
    /\ batch_dirs' = {}
    /\ UNCHANGED <<pc, storeVars, callVars, diskVars, files, files_by_folder, requests, lastTable,
                   run2Vars>>

\* the run totals of process_directory: sums over folder_stats.values()
RECURSIVE SumStats(_, _)
SumStats(fs, field) ==
    IF fs = <<>> THEN 0 ELSE Head(fs).stats[field] + SumStats(Tail(fs), field)
total_folders == Len(folder_stats)
total_files == SumStats(folder_stats, "processed")
total_success == SumStats(folder_stats, "success")
total_errors == SumStats(folder_stats, "errors")
total_extracted == SumStats(folder_stats, "extracted")
total_failed == SumStats(folder_stats, "failed")

\* process_directory after the folder loop
Finish ==
    /\ pc = "run"
    /\ cur > Len(files_by_folder)
    /\ pc' = "done"
    /\ UNCHANGED <<storeVars, callVars, diskVars, runVars, run2Vars>>

RunInit ==
    /\ files = <<>>
    /\ files_by_folder = <<>>
    /\ cur = 1
    /\ fileIdx = 1
    /\ step = "ensure"
    /\ stats = ZeroStats
    /\ folder_transactions = <<>>
    /\ successful_transactions_count = 0
    /\ outcome = NoOutcome
    /\ lastTable = NoTable
    /\ lastNet = NoNet
    /\ batch_dirs = {}
    /\ folder_stats = <<>>
    /\ total_successful_transactions = 0
    /\ requests = <<>>

StoreInit(mappings) ==
    /\ pc = "new"
    /\ mappingFile \in InitFiles(mappings)
    /\ org_mapping = <<>>
    /\ reads = 0
    /\ writes = 0
    /\ lastWrite = "none"
    /\ loaded = <<>>
    /\ lastWriter = 0
    /\ calls = 0
    /\ lastCall = NoCall

\* no second run
Run2Off ==
    /\ pc2 = "off"
    /\ org_mapping2 = <<>>
    /\ loaded2 = <<>>
    /\ writes2 = 0
    /\ lastWrite2 = "none"
    /\ calls2 = 0

\* one run of the program: the parser is built and process_directory called
Init ==
    /\ StoreInit(RunMappings)
    /\ Run2Off
    /\ rootExists \in BOOLEAN
    /\ disk \in IF rootExists THEN InitDisks ELSE {<<>>}
    /\ RunInit

Next ==
    \/ Construct
    \/ ProcessDirectory
    \/ EnsureStep
    \/ ParseStep
    \/ SubmitStep
    \/ ReportStep
    \/ Finish

Spec == Init /\ [][Next]_vars

\* one run on a root whose files lie at other depths than one: a folder "b"
\* below the folder "Ac" besides the folder "b" of the root, a file below
\* "Ac" and one in its folder "b", a file in the root besides a folder of
\* the root's own name, and a file in the root alone
NestedDisks ==
    { <<EntryAt(<<NameAc, NameB>>, "csv"), EntryAt(<<NameB>>, "csv")>>,
      <<EntryAt(<<NameAc>>, "csv"), EntryAt(<<NameAc, NameB>>, "xlsx")>>,
      <<EntryAt(<<>>, "csv"), EntryAt(<<RootName>>, "csv")>>,
      <<EntryAt(<<>>, "xls")>> }
InitNested ==
    /\ StoreInit(RunMappings)
    /\ Run2Off
    /\ rootExists = TRUE
    /\ disk \in NestedDisks
    /\ RunInit

SpecNested == InitNested /\ [][Next]_vars

\* the store alone: the parser is built and its methods are called directly
InitStore ==
    /\ StoreInit(InitMappings(Datas))
    /\ Run2Off
    /\ rootExists = TRUE
    /\ disk = <<>>
    /\ RunInit

NextStore ==
    \/ Construct
    \/ \E name \in Names : CallEnsure(name)
    \/ \E name \in Names : CallResolve(name)

SpecStore == InitStore /\ [][NextStore]_vars

\* ============================================ two runs on one mapping file
\* __init__ of the second run
Construct2 ==
    /\ pc2 = "new"
    /\ LET r == load_org_mapping(mappingFile)
       IN  /\ pc2' = IF r.raised THEN "init_failed" ELSE "idle"
           /\ org_mapping2' = r.mapping
           /\ loaded2' = r.mapping
    /\ UNCHANGED <<pc, storeVars, callVars, diskVars, runVars, writes2, lastWrite2,
                   calls2>>

\* ensure_org_in_mapping of the second run
CallEnsure2(name) ==
    /\ pc2 = "idle"
    /\ calls2 < MaxCalls
    /\ \E e \in ensure_org_in_mapping(org_mapping2, mappingFile, name) :
         /\ org_mapping2' = e.mapping
         /\ mappingFile' = e.file
         /\ writes2' = IF e.saved THEN writes2 + 1 ELSE writes2
         /\ lastWrite2' = IF e.saved THEN e.status ELSE lastWrite2
         /\ lastWriter' = IF e.saved /\ e.file # mappingFile THEN 2 ELSE lastWriter
         /\ pc2' = IF e.status = "raised" THEN "crashed" ELSE pc2
    /\ calls2' = calls2 + 1
    /\ UNCHANGED <<pc, org_mapping, reads, writes, lastWrite, loaded, callVars,
                   diskVars, runVars, loaded2>>

InitTwoRuns ==
    /\ StoreInit(InitMappings(RunDatas))
    /\ pc2 = "new"
    /\ org_mapping2 = <<>>
    /\ loaded2 = <<>>
    /\ writes2 = 0
    /\ lastWrite2 = "none"
    /\ calls2 = 0
    /\ rootExists = TRUE
    /\ disk = <<>>
    /\ RunInit

NextTwoRuns ==
    \/ Construct
    \/ \E name \in Names : CallEnsure(name)
    \/ Construct2
    \/ \E name \in Names : CallEnsure2(name)

SpecTwoRuns == InitTwoRuns /\ [][NextTwoRuns]_vars

\* =================================================== find_column_by_names
\* headers of the model: a letter in both cases with the two characters
\* the comparison removes, and a header of another letter
Headers ==
    { <<"a">>, <<"A">>, <<"a", " ">>, <<"_", "a">>, <<"a", "a">>, <<"A", "a">>,
      <<"a", "_", "a">>, <<"A", " ", "A">>, <<"a", "a", "a">>,
      <<"A", "_", "a", " ", "A">>, <<"b">> }

\* df.columns: pandas keeps the headers of a table distinct
RECURSIVE ColumnsOfLen(_)
ColumnsOfLen(n) ==
    IF n = 0 THEN {<<>>}
    ELSE UNION { { Append(cols, h) :
                     h \in Headers \ { cols[i] : i \in 1..Len(cols) } } :
                 cols \in ColumnsOfLen(n - 1) }
ColumnLists == UNION { ColumnsOfLen(n) : n \in 0..MaxColumns }

\* candidate lists in the manner of COLUMN_NAME_CANDIDATES: one name, two
\* names, two names that differ by an underscore only, no name
PossibleNames ==
    { << <<"a">> >>,
      << <<"a", "_", "a">>, <<"a">> >>,
      << <<"a", "a", "a">>, <<"a", "_", "a">> >>,
      << >> }

NoColumn == <<"None">>

\* col.lower().replace('_', '').replace(' ', '')
Normalized(s) == SelectSeq(Lower(s), LAMBDA ch : ch # "_" /\ ch # " ")

\* the headers scanned in the outer loop, the candidates in the inner one
RECURSIVE FindColumnHeadersFirst(_, _)
FindColumnHeadersFirst(columns, possible_names) ==
    IF columns = <<>> THEN NoColumn
    ELSE IF \E i \in 1..Len(possible_names) :
               Normalized(Head(columns)) = Normalized(possible_names[i])
         THEN Head(columns)
         ELSE FindColumnHeadersFirst(Tail(columns), possible_names)

\* the inner loop "for col in df.columns"
RECURSIVE FirstMatchingColumn(_, _)
FirstMatchingColumn(columns, name) ==
    IF columns = <<>> THEN NoColumn
    ELSE IF Normalized(Head(columns)) = Normalized(name) THEN Head(columns)
    ELSE FirstMatchingColumn(Tail(columns), name)

RECURSIVE find_column_by_names(_, _)
find_column_by_names(columns, possible_names) ==
    IF possible_names = <<>> THEN NoColumn
    ELSE LET col == FirstMatchingColumn(columns, Head(possible_names))
         IN  IF col # NoColumn THEN col
             ELSE find_column_by_names(columns, Tail(possible_names))

FindArgs(columns, possible_names) ==
    [columns |-> columns, possible_names |-> possible_names]

\* a direct call of find_column_by_names on a parser
CallFindColumn(columns, possible_names) ==
    /\ pc = "idle"
    /\ calls = 0
    /\ calls' = calls + 1
    /\ lastCall' = CallOf("find_column", FindArgs(columns, possible_names),
                          find_column_by_names(columns, possible_names), FALSE)
    /\ UNCHANGED <<pc, storeVars, diskVars, runVars, run2Vars>>

InitColumns ==
    /\ StoreInit({<<>>})
    /\ mappingFile = MissingFile
    /\ Run2Off
    /\ rootExists = TRUE
    /\ disk = <<>>
    /\ RunInit

\* one call on some table and some candidate list
FindColumnStep ==
    /\ pc = "idle"
    /\ calls = 0
    /\ \E columns \in ColumnLists, possible_names \in PossibleNames :
         CallFindColumn(columns, possible_names)

NextColumns ==
    \/ Construct
    \/ FindColumnStep

SpecColumns == InitColumns /\ [][NextColumns]_vars

\* =================================================== the mail filter
\* the decimal numeral of n >= 0 as a sequence of characters
DigitChars == <<"0", "1", "2", "3", "4", "5", "6", "7", "8", "9">>
RECURSIVE Numeral(_)
Numeral(n) ==
    IF n < 10 THEN <<DigitChars[n + 1]>>
    ELSE Append(Numeral(n \div 10), DigitChars[(n % 10) + 1])
\* the format specification 0<w>d: zeros to the left up to the width w
RECURSIVE ZeroPadded(_, _)
ZeroPadded(n, w) ==
    IF Len(Numeral(n)) >= w THEN Numeral(n)
    ELSE <<"0">> \o ZeroPadded(n, w - 1)
\* the hour written with two digits as it is
Hour24Str(dt) ==
    ZeroPadded(dt.m, 2) \o <<"/">> \o ZeroPadded(dt.d, 2) \o <<"/">>
      \o ZeroPadded(dt.Y, 4) \o <<" ">> \o ZeroPadded(dt.H, 2) \o <<":">>
      \o ZeroPadded(dt.M, 2) \o <<" ">>
      \o (IF dt.H < 12 THEN <<"A", "M">> ELSE <<"P", "M">>)

\* outlook_us_datetime_str
outlook_us_datetime_str(dt) ==
    LET hour12 == IF dt.H % 12 # 0 THEN dt.H % 12 ELSE 12
        am_pm == IF dt.H < 12 THEN <<"A", "M">> ELSE <<"P", "M">>
    IN  ZeroPadded(dt.m, 2) \o <<"/">> \o ZeroPadded(dt.d, 2) \o <<"/">>
          \o ZeroPadded(dt.Y, 4) \o <<" ">> \o ZeroPadded(hour12, 2) \o <<":">>
          \o ZeroPadded(dt.M, 2) \o <<" ">> \o am_pm

\* a > b on datetimes: the first field that differs decides
DateTimeFields == <<"Y", "m", "d", "H", "M", "S", "f">>
RECURSIVE GreaterFrom(_, _, _)
GreaterFrom(a, b, i) ==
    IF i > Len(DateTimeFields) THEN FALSE
    ELSE IF a[DateTimeFields[i]] # b[DateTimeFields[i]]
         THEN a[DateTimeFields[i]] > b[DateTimeFields[i]]
         ELSE GreaterFrom(a, b, i + 1)
Greater(a, b) == GreaterFrom(a, b, 1)

\* (dt + timedelta(days=1)).date() at midnight; overflow |-> TRUE stands for
\* the OverflowError of a date after 9999-12-31
NextMidnight(dt) ==
    IF dt.d < DaysInMonth(dt.Y, dt.m)
    THEN [overflow |-> FALSE, t |-> DateTimeOf(dt.Y, dt.m, dt.d + 1, 0, 0, 0, 0)]
    ELSE IF dt.m < 12
    THEN [overflow |-> FALSE, t |-> DateTimeOf(dt.Y, dt.m + 1, 1, 0, 0, 0, 0)]
    ELSE IF dt.Y < 9999
    THEN [overflow |-> FALSE, t |-> DateTimeOf(dt.Y + 1, 1, 1, 0, 0, 0, 0)]
    ELSE [overflow |-> TRUE, t |-> DefaultDateTime]

\* the result of build_received_time_filter: raised is "none", "ValueError"
\* or "OverflowError"
FilterResult(raised, filter_str, end_exclusive) ==
    [raised |-> raised, filter_str |-> filter_str, end_exclusive |-> end_exclusive]
FilterText(lower, upper) ==
    <<"[ReceivedTime] >= '">> \o lower \o <<"' AND [ReceivedTime] < '">>
      \o upper \o <<"'">>

\* the upper bound taken as the end itself
BuildFilterUpToEnd(start_inclusive, end_inclusive) ==
    IF Greater(start_inclusive, end_inclusive)
    THEN FilterResult("ValueError", <<>>, DefaultDateTime)
    ELSE FilterResult("none",
                      FilterText(outlook_us_datetime_str(start_inclusive),
                                 outlook_us_datetime_str(end_inclusive)),
                      end_inclusive)

\* build_received_time_filter
build_received_time_filter(start_inclusive, end_inclusive) ==
    IF Greater(start_inclusive, end_inclusive)
    THEN FilterResult("ValueError", <<>>, DefaultDateTime)
    ELSE LET next == NextMidnight(end_inclusive)
         IN  IF next.overflow
             THEN FilterResult("OverflowError", <<>>, DefaultDateTime)
             ELSE FilterResult("none",
                               FilterText(outlook_us_datetime_str(start_inclusive),
                                          outlook_us_datetime_str(next.t)),
                               next.t)

\* the datetimes outlook_us_datetime_str is called on: every hour of some days
OutlookInstants ==
    { t \in [Y : {987, 2025, 9999}, m : {1, 5, 10, 12}, d : {1, 9, 31}, H : 0..23,
              M : {0, 7, 59}, S : {0, 59}, f : {0}] :
        t.d <= DaysInMonth(t.Y, t.m) }
\* the datetimes build_received_time_filter is called on: the ends of months
\* and of years, a leap day, and the last day a datetime can hold
FilterDays ==
    { <<2024, 2, 28>>, <<2024, 2, 29>>, <<2024, 3, 1>>, <<2024, 3, 5>>,
      <<2024, 3, 10>>, <<2024, 12, 31>>, <<2025, 2, 28>>, <<9999, 12, 31>> }
FilterTimes == { <<0, 0, 0, 0>>, <<15, 7, 30, 500000>>, <<23, 59, 59, 0>> }
FilterInstants ==
    { DateTimeOf(day[1], day[2], day[3], tm[1], tm[2], tm[3], tm[4]) :
        day \in FilterDays, tm \in FilterTimes }

CallOutlookStr(dt) ==
    /\ calls' = calls + 1
    /\ lastCall' = CallOf("outlook_str", dt, outlook_us_datetime_str(dt), FALSE)
    /\ UNCHANGED <<pc, storeVars, diskVars, runVars, run2Vars>>

CallBuildFilter(start_inclusive, end_inclusive) ==
    /\ calls' = calls + 1
    /\ lastCall' = CallOf("build_filter",
                          [start |-> start_inclusive, end |-> end_inclusive],
                          build_received_time_filter(start_inclusive, end_inclusive),
                          FALSE)
    /\ UNCHANGED <<pc, storeVars, diskVars, runVars, run2Vars>>

OutlookStrStep ==
    /\ pc = "idle"
    /\ calls = 0
    /\ \E dt \in OutlookInstants : CallOutlookStr(dt)

BuildFilterStep ==
    /\ pc = "idle"
    /\ calls = 0
    /\ \E start_inclusive \in FilterInstants, end_inclusive \in FilterInstants :
         CallBuildFilter(start_inclusive, end_inclusive)

NextFilter ==
    \/ Construct
    \/ OutlookStrStep
    \/ BuildFilterStep

SpecFilter == InitColumns /\ [][NextFilter]_vars

\* ------------------------------------------- calls of find_transaction_files
\* files in the root, in a folder and in a folder of a folder, with the
\* supported extensions and another one
FindPaths == {<<>>, <<NameB>>, <<NameB, NameAc>>}
FindEntries ==
    { EntryAt(p, e) : p \in FindPaths, e \in {"csv", "xlsx", "xls", "txt"} }
\* listings of distinct files
RECURSIVE ListingsOfLen(_)
ListingsOfLen(n) ==
    IF n = 0 THEN {<<>>}
    ELSE UNION { { Append(d, f) :
                     f \in FindEntries \ { d[i] : i \in 1..Len(d) } } :
                 d \in ListingsOfLen(n - 1) }
Listings == UNION { ListingsOfLen(n) : n \in 0..MaxFiles }

CallFind(d) ==
    /\ calls' = calls + 1
    /\ lastCall' = CallOf("find", d, find_transaction_files(TRUE, d), FALSE)
    /\ UNCHANGED <<pc, storeVars, diskVars, runVars, run2Vars>>

FindStep ==
    /\ pc = "idle"
    /\ calls = 0
    /\ \E d \in Listings : CallFind(d)

NextFind ==
    \/ Construct
    \/ FindStep

SpecFind == InitColumns /\ [][NextFind]_vars

\* ------------------------------------------- calls of _extract_transactions
\* card cells: the valid card, the valid card between blanks, a card with
\* another prefix, "96431234", a card of 20 characters, blanks, a blank cell
CardWrongPrefix == <<"1", "1", "1", "1">> \o SubSeq(CardOk, 5, 19)
CardShort == <<"9", "6", "4", "3", "1", "2", "3", "4">>
CardCells ==
    { CardCell(FALSE, CardOk), CardCell(FALSE, <<" ">> \o CardOk \o <<" ">>),
      CardCell(FALSE, CardWrongPrefix), CardCell(FALSE, CardShort),
      CardCell(FALSE, CardOk \o <<"6">>), CardCell(FALSE, <<" ", " ">>),
      CardCell(TRUE, <<>>) }
\* price cells: 12.5, "12.5", 3.0, a blank cell, an infinity, "abc"
PriceCells ==
    { NumCell("num", 1250), NumCell("numtext", 1250), NumCell("num", 300),
      NumCell("nan", 0),
      NumCell("inf", 0), NumCell("text", 0) }
DiscountCells == { NumCell("num", 0), NumCell("text", 0) }
Rows ==
    { RowOf(GoodDateCell, c, p, NumCell("num", 0)) :
        c \in CardCells, p \in PriceCells }
    \cup { RowOf(GoodDateCell, CardCell(FALSE, CardOk), NumCell("num", 1250), d) :
             d \in DiscountCells }
    \cup {RowNotADate}

\* the rows of the table of the last call
LastRows == IF lastCall.op = "extract" THEN lastCall.name ELSE <<>>

\* _extract_transactions on the rows of a table
CallExtract(rows) ==
    /\ calls' = calls + 1
    /\ lastCall' = CallOf("extract", rows, _extract_transactions(rows), FALSE)
    /\ UNCHANGED <<pc, storeVars, diskVars, runVars, run2Vars>>

\* on a table without rows
ExtractEmpty ==
    /\ pc = "idle"
    /\ calls = 0
    /\ CallExtract(<<>>)

\* on the table of the last call with one more row
ExtractLonger ==
    /\ pc = "idle"
    /\ Len(LastRows) < MaxRows
    /\ \E row \in Rows : CallExtract(Append(LastRows, row))

NextRows ==
    \/ Construct
    \/ ExtractEmpty
    \/ ExtractLonger

SpecRows == InitColumns /\ [][NextRows]_vars

\* ------------------------------------------- calls of normalize_date_format
\* the instants of the model: days below and above 12, the last day of a
\* month, times with and without minutes, seconds and microseconds
Instants ==
    { t \in [Y : {2025}, m : {1, 4, 12}, d : {1, 4, 13, 31}, H : {0, 15},
              M : {0, 30}, S : {0, 45}, f : {0, 123456}] :
        t.d <= DaysInMonth(t.Y, t.m) }
\* the format can write the instant: the fields it lacks are zero
Expressible(t, fmt) ==
    \A dir \in {"H", "M", "S", "f"} :
      (\A i \in 1..Len(fmt) : fmt[i] # Dir(dir)) => t[dir] = 0

\* date cells that are not written per a format of the list: a blank cell,
\* "not-a-date", blanks only, and "2025/04/13"
OtherDateCells ==
    { BlankDateCell, NotADateCell, DateCell(FALSE, <<Sep(" "), Sep(" ")>>),
      DateCell(FALSE, <<Num(2025), Sep("/"), Num(4), Sep("/"), Num(13)>>) }

DateArgs(fmt, t, cell) == [fmt |-> fmt, t |-> t, cell |-> cell]

\* normalize_date_format on the instant t written per DATE_FORMATS[i]
CallNormalizeFormatted(i, t) ==
    LET cell == DateCell(FALSE, strftime(t, DATE_FORMATS[i]))
    IN  /\ pc = "idle"
        /\ calls = 0
        /\ calls' = calls + 1
        /\ lastCall' = CallOf("normalize_formatted", DateArgs(i, t, cell),
                              normalize_date_format(cell), FALSE)
        /\ UNCHANGED <<pc, storeVars, diskVars, runVars, run2Vars>>

\* normalize_date_format on any other cell
CallNormalizeOther(cell) ==
    /\ pc = "idle"
    /\ calls = 0
    /\ calls' = calls + 1
    /\ lastCall' = CallOf("normalize_other", DateArgs(0, DefaultDateTime, cell),
                          normalize_date_format(cell), FALSE)
    /\ UNCHANGED <<pc, storeVars, diskVars, runVars, run2Vars>>

NextDates ==
    \/ Construct
    \/ \E i \in 1..Len(DATE_FORMATS) :
         \E t \in { u \in Instants : Expressible(u, DATE_FORMATS[i]) } :
           CallNormalizeFormatted(i, t)
    \/ \E cell \in OtherDateCells : CallNormalizeOther(cell)

SpecDates == InitColumns /\ [][NextDates]_vars

\* ================================================================ claims
\* two strings are equal ignoring letter case
SameLetter(a, b) ==
    \/ a = b
    \/ {a, b} \in {{"a", "A"}, {"b", "B"}, {"c", "C"}}
EqualIgnoringCase(x, y) ==
    /\ Len(x) = Len(y)
    /\ \A i \in 1..Len(x) : SameLetter(x[i], y[i])
MatchingEntries(m, folder) ==
    { i \in 1..Len(m) : EqualIgnoringCase(m[i].key, folder) }

Started == pc \in {"run", "done", "crashed"}

\* the folder has no usable identity in the mapping m: the lookup finds no
\* entry, or an entry whose token is empty, null or missing
Unusable(m, folder) ==
    get_org_id_by_folder_name(m, folder) \in {NoneVal, EmptyStr}

\* C1: for every folder whose identity is unusable before the run (no entry,
\* empty token, null token, no token field) every file gives (None, 0, 0), no
\* record of the folder is extracted, send_transactions is never called for
\* it, and the mapping holds an entry for the folder afterwards.
C1_UnusableFolderSkipped ==
    Started =>
      /\ \A i \in 1..Len(requests) : ~Unusable(loaded, requests[i].folder)
      /\ (InFolder /\ Unusable(loaded, CurFolder)) =>
            /\ folder_transactions = <<>>
            /\ stats.extracted = 0 /\ stats.failed = 0 /\ stats.success = 0
            /\ (fileIdx > 1 => HasKey(org_mapping, CurFolder))
      /\ \A i \in 1..Len(folder_stats) :
            Unusable(loaded, folder_stats[i].folder) =>
              /\ folder_stats[i].stats.extracted = 0
              /\ folder_stats[i].stats.failed = 0
              /\ folder_stats[i].stats.success = 0
              /\ HasKey(org_mapping, folder_stats[i].folder)

\* the root holds the one folder "Ac" with one file, the file has one valid
\* row and one row with an empty card number, and the file loop is through
AcmeParsed ==
    /\ rootExists
    /\ disk = <<FileAt(<<NameAc>>)>>
    /\ pc = "run"
    /\ step = "submit"
    /\ lastTable = AcmeTable

\* C2 as stated: the end-to-end run on that root yields extracted = 1 and
\* failed = 1, and a folder without entry before the run has one afterwards.
C2_AsStated ==
    AcmeParsed =>
      /\ stats.extracted = 1
      /\ stats.failed = 1
      /\ HasKey(org_mapping, NameAc)

\* C2, amended: the run yields extracted = 1 and failed = 1 when the mapping
\* resolves the folder to a non-empty token; when the mapping has no entry for
\* the folder before the run (no key equal ignoring case), it has one
\* afterwards, the file is skipped and extracted = 0 and failed = 0.
C2_EndToEnd ==
    AcmeParsed =>
      /\ HasKey(org_mapping, NameAc)
      /\ ~Unusable(loaded, NameAc) => (stats.extracted = 1 /\ stats.failed = 1)
      /\ MatchingEntries(loaded, NameAc) = {} =>
            /\ stats.extracted = 0 /\ stats.failed = 0
            /\ folder_transactions = <<>>

C2_Witness ==
    /\ AcmeParsed
    /\ ~Unusable(loaded, NameAc)
    /\ stats.extracted = 1
    /\ stats.failed = 1
    /\ Len(folder_transactions) = 1

\* the step is a direct call of the named method
IsCall(op) == calls' = calls + 1 /\ lastCall'.op = op

\* C3: ensure_org_in_mapping(name) on a mapping without entry for name adds
\* exactly one entry, keyed by name, with the empty token, and saves once; a
\* later call with the same name changes neither the mapping nor the file.
C3_EnsureProvisionsOnce ==
    /\ [][IsCall("ensure") =>
            LET name == lastCall'.name
                n == Len(org_mapping)
            IN  IF ~HasKey(org_mapping, name)
                THEN /\ Len(org_mapping') = n + 1
                     /\ SubSeq(org_mapping', 1, n) = org_mapping
                     /\ org_mapping'[n + 1].key = name
                     /\ org_mapping'[n + 1].data.type = "dict"
                     /\ org_mapping'[n + 1].data.token = EmptyStr
                     /\ writes' = writes + 1
                     /\ lastWrite' = "ok" => mappingFile' = MappingFileOf(org_mapping')
                ELSE /\ org_mapping' = org_mapping
                     /\ mappingFile' = mappingFile
                     /\ writes' = writes]_vars
    /\ [][\A name \in Names : HasKey(org_mapping, name) => HasKey(org_mapping', name)]_vars

\* a second call for a name that an earlier call provisioned
C3_Witness ==
    /\ lastCall.op = "ensure"
    /\ ~lastCall.inserted
    /\ loaded = <<>>
    /\ Len(org_mapping) = 1
    /\ org_mapping[1].key = lastCall.name
    /\ writes = 1
    /\ lastWrite = "ok"
    /\ mappingFile = MappingFileOf(org_mapping)

CaseUnique(m) ==
    \A i, j \in 1..Len(m) : i # j => ~EqualIgnoringCase(m[i].key, m[j].key)

\* C4: starting from a mapping without two keys equal ignoring case, no
\* sequence of load, resolve and ensure_org_in_mapping calls leaves two keys
\* equal ignoring case in the mapping: ensure_org_in_mapping adds no entry
\* for a name the case-insensitive lookup already matches.
C4_KeysUniqueIgnoringCase ==
    CaseUnique(loaded) => CaseUnique(org_mapping)

\* the identity a mapping entry stands for
IdentityOf(data) ==
    IF data.type = "dict" /\ data.token.k \notin {"absent", "none"} THEN data.token
    ELSE IF data.type = "str" THEN data.token
    ELSE NoneVal

\* C5: get_org_id_by_folder_name(folder) returns the identity of the entry
\* whose key equals folder ignoring letter case (the first one in the
\* mapping), None when no key equals folder ignoring case, and it changes
\* neither the mapping nor the file.
C5_ResolveIgnoresCase ==
    /\ [](lastCall.op = "resolve" =>
            LET M == MatchingEntries(org_mapping, lastCall.name)
            IN  IF M = {} THEN lastCall.result = NoneVal
                ELSE \E i \in M :
                       /\ \A j \in M : i <= j
                       /\ lastCall.result = IdentityOf(org_mapping[i].data))
    /\ [][IsCall("resolve") =>
            UNCHANGED <<mappingFile, org_mapping, reads, writes, lastWrite>>]_vars

\* a lookup that found a token under a key written in another letter case
C5_Witness ==
    /\ lastCall.op = "resolve"
    /\ ~HasKey(org_mapping, lastCall.name)
    /\ lastCall.result = StrVal("tok")

\* C6: the mapping file is read once, at construction; afterwards a write
\* happens exactly when ensure_org_in_mapping inserts a new entry, in the same
\* call, and after every successful write the file holds the whole in-memory
\* mapping; lookup, extraction and submission change neither file nor mapping.
C6_ReadOnceWriteOnProvision ==
    /\ [](reads <= 1)
    /\ [](lastWrite = "ok" => mappingFile = MappingFileOf(org_mapping))
    /\ [][reads' # reads => pc = "new"]_vars
    /\ [][pc # "new" => (writes' # writes <=> org_mapping' # org_mapping)]_vars
    /\ [][(mappingFile' # mappingFile \/ org_mapping' # org_mapping) =>
            \/ pc = "new" /\ mappingFile' = mappingFile
            \/ /\ pc = "run" /\ step = "ensure"
               /\ ~HasKey(org_mapping, CurFolder)
               /\ writes' = writes + 1
               /\ Len(org_mapping') = Len(org_mapping) + 1
               /\ org_mapping'[Len(org_mapping')].key = CurFolder]_vars

\* a finished run that loaded an entry, provisioned a folder and sent a batch
C6_Witness ==
    /\ pc = "done"
    /\ reads = 1
    /\ writes >= 1
    /\ lastWrite = "ok"
    /\ Len(loaded) >= 1
    /\ Len(org_mapping) > Len(loaded)
    /\ requests # <<>>

\* C7: when writing the mapping file fails, save_org_mapping raises nothing,
\* the new placeholder stays in the in-memory mapping, and the run goes on
\* with the file at hand and with the remaining folders.
C7_SaveFailureIsNotFatal ==
    /\ [][(writes' = writes + 1 /\ lastWrite' # "ok") =>
            /\ pc' = "run"
            /\ step' = "parse"
            /\ fileIdx' = fileIdx
            /\ stats' = stats
            /\ Len(org_mapping') = Len(org_mapping) + 1
            /\ org_mapping'[Len(org_mapping')].key = CurFolder
            /\ org_mapping'[Len(org_mapping')].data.token = EmptyStr]_vars
    /\ [](pc = "crashed" => step = "submit")
    /\ [](pc = "done" => Len(folder_stats) = Len(Folders))

\* the write for the first folder failed, and the second folder was extracted
C7_Witness ==
    /\ pc = "done"
    /\ writes = 1
    /\ lastWrite = "failed"
    /\ Len(folder_stats) = 2
    /\ ~HasKey(loaded, folder_stats[1].folder)
    /\ HasKey(org_mapping, folder_stats[1].folder)
    /\ folder_stats[2].stats.extracted > 0

\* the mapping the claim expects load_org_mapping to return for a file
ExpectedLoad(f) ==
    IF f.kind = "object" /\ f.key = "dict" THEN f.map ELSE <<>>

\* C8: load_org_mapping never raises and always returns a mapping: the empty
\* one for a missing file and for a file that is not a JSON object holding a
\* mapping object under its key, the stored object otherwise.
C8_LoadNeverRaises ==
    (pc # "new" /\ writes = 0) =>
      /\ pc # "init_failed"
      /\ org_mapping = ExpectedLoad(mappingFile)

\* the keys a run added to the mapping it loaded
Provisioned1 == Keys(org_mapping) \ Keys(loaded)
Provisioned2 == Keys(org_mapping2) \ Keys(loaded2)
FileKeys ==
    IF mappingFile.kind = "object" /\ mappingFile.key = "dict"
    THEN Keys(mappingFile.map) ELSE {}
\* the file lacks a placeholder of a run whose last save succeeded
Lost1 == lastWrite = "ok" /\ Provisioned1 \ FileKeys # {}
Lost2 == lastWrite2 = "ok" /\ Provisioned2 \ FileKeys # {}

\* C9: with two runs on one mapping file a placeholder that one run saved can
\* be missing from the file only after the other run wrote the file; while
\* the other run has not written, nothing a run saved is lost.
C9_LossOnlyByOtherRun ==
    /\ Lost1 => (lastWriter = 2 /\ writes2 > 0)
    /\ Lost2 => (lastWriter = 1 /\ writes > 0)

\* both runs loaded the same file, each provisioned another folder and saved,
\* and the file holds the second writer's mapping without the first's entry
C9_Witness ==
    /\ pc = "idle" /\ pc2 = "idle"
    /\ loaded = loaded2
    /\ writes = 1 /\ writes2 = 1
    /\ lastWrite = "ok" /\ lastWrite2 = "ok"
    /\ Provisioned1 # {} /\ Provisioned2 # {}
    /\ Provisioned1 \cap Provisioned2 = {}
    /\ mappingFile = MappingFileOf(org_mapping2)
    /\ Provisioned1 \cap FileKeys = {}

\* how far the run is with the folder at index i of files_by_folder: two
\* steps for each file, then the submission, then the report
NumFiles(i) == Len(files_by_folder[i].files)
Progress(i) ==
    IF ~Started THEN 0
    ELSE IF i < cur THEN 2 * NumFiles(i) + 2
    ELSE IF i > cur THEN 0
    ELSE CASE step = "ensure" -> 2 * (fileIdx - 1)
           [] step = "parse" -> 2 * (fileIdx - 1) + 1
           [] step = "submit" -> 2 * NumFiles(i)
           [] OTHER -> 2 * NumFiles(i) + 1
RequestsFor(name) == { k \in 1..Len(requests) : requests[k].folder = name }

\* C10: every folder moves forward only: its entry is in the mapping before
\* any of its files is extracted, all its files are extracted before its
\* batch is sent, the batch is sent at most once whatever the answer, its
\* report follows the submission, and no other folder is touched meanwhile.
C10_FolderMovesForward ==
    /\ [][\A i \in 1..Len(Folders) : Progress(i)' >= Progress(i)]_vars
    /\ [](\A i \in 1..Len(Folders) :
            /\ Progress(i) >= 1 => HasKey(org_mapping, Folders[i])
            /\ (Started /\ i > cur /\ HasKey(org_mapping, Folders[i]))
                  => HasKey(loaded, Folders[i]))
    /\ [][requests' # requests =>
            /\ InFolder /\ step = "submit"
            /\ stats.processed = Len(CurFiles)
            /\ requests' = Append(requests, requests'[Len(requests')])
            /\ requests'[Len(requests')].folder = CurFolder
            /\ requests'[Len(requests')].transactions = folder_transactions]_vars
    /\ [](\A name \in Names : Cardinality(RequestsFor(name)) <= 1)
    /\ [][folder_stats' # folder_stats =>
            /\ InFolder /\ step = "report"
            /\ outcome.class # "none"
            /\ folder_stats' =
                 Append(folder_stats,
                        ReportOf(CurFolder, stats, successful_transactions_count))]_vars
    /\ [](Started =>
            /\ Len(folder_stats) = cur - 1
            /\ \A i \in 1..Len(folder_stats) : folder_stats[i].folder = Folders[i]
            /\ \A k \in 1..Len(requests) :
                 \E i \in 1..Len(Folders) :
                   /\ Folders[i] = requests[k].folder
                   /\ i <= cur
                   /\ i = cur => (step = "report" \/ pc = "crashed"))

\* two folders reported in order, the first after a submission that failed
C10_Witness ==
    /\ pc = "done"
    /\ Len(folder_stats) = 2
    /\ Len(requests) = 2
    /\ folder_stats[1].stats.extracted > 0
    /\ folder_stats[1].successful = 0
    /\ folder_stats[2].successful > 0

\* C11: a folder whose batch holds no extracted record sends no request, is
\* reported with zero successfully sent transactions, and its statistics are
\* in the run totals: every one of its files is counted in the totals.
C11_EmptyBatchNotSent ==
    /\ [][(InFolder /\ step = "submit" /\ stats.extracted = 0) =>
            /\ requests' = requests
            /\ pc' = pc
            /\ successful_transactions_count' = 0
            /\ (step' = "report" \/ step' = step)]_vars
    /\ [](\A i \in 1..Len(folder_stats) :
            folder_stats[i].stats.extracted = 0 =>
              /\ RequestsFor(folder_stats[i].folder) = {}
              /\ folder_stats[i].successful = 0
              /\ folder_stats[i].folder = Folders[i]
              /\ folder_stats[i].stats.processed = NumFiles(i))
    /\ [](pc = "done" =>
            /\ total_folders = Len(files_by_folder)
            /\ total_files = Len(files)
            /\ total_success + total_errors = Len(files)
            /\ total_extracted =
                 SumStats(SelectSeq(folder_stats, LAMBDA r : r.stats.extracted > 0),
                          "extracted"))

\* a finished run of two folders: the first with every row failed and no
\* request, the second with a batch that was sent
C11_Witness ==
    /\ pc = "done"
    /\ Len(folder_stats) = 2
    /\ folder_stats[1].stats.extracted = 0
    /\ folder_stats[1].stats.failed > 0
    /\ folder_stats[1].successful = 0
    /\ RequestsFor(folder_stats[1].folder) = {}
    /\ Len(requests) = 1
    /\ total_files = 2

\* C12: with an existing root the run always finishes and every discovered
\* folder is reported, whatever the files, the mapping write, the transport
\* or the response body do: nothing raised in a folder leaves the run, and
\* a finished run has one report for each folder.
C12_RunAlwaysFinishes ==
    (rootExists /\ Started) =>
      /\ pc # "crashed"
      /\ (pc = "done" => Len(folder_stats) = Len(files_by_folder))
      /\ (pc = "run" => (InFolder \/ Len(folder_stats) = Len(files_by_folder)))

\* C13: when the root directory does not exist find_transaction_files gives
\* the empty list without raising and the run ends with an empty result:
\* no folder, no file, no extracted record, no request and no write to the
\* mapping file.
C13_MissingRootEmptyRun ==
    (~rootExists /\ Started) =>
      /\ pc \in {"run", "done"}
      /\ files = <<>>
      /\ files_by_folder = <<>>
      /\ ~InFolder
      /\ total_folders = 0
      /\ total_files = 0
      /\ total_extracted = 0
      /\ total_failed = 0
      /\ total_successful_transactions = 0
      /\ requests = <<>>
      /\ writes = 0
      /\ lastWrite = "none"
      /\ lastWriter = 0
      /\ org_mapping = loaded

\* a run over a missing root has finished, with a mapping that was loaded
C13_Witness ==
    /\ ~rootExists
    /\ pc = "done"
    /\ loaded # <<>>
    /\ reads = 1

\* the length of a JSON value that is a list, 0 for any other value
ListLen(x) == IF x.isList THEN Len(x.items) ELSE 0
\* the body of the answer the folder's request got, when it has a status
Answered ==
    /\ InFolder /\ step = "report"
    /\ lastNet.kind = "ok"
    /\ lastNet.body.isDict /\ lastNet.body.hasStatus
AnsweredStatus(n) == Answered /\ lastNet.body.status = StatusOf("int", n)
AnsweredResult ==
    IF lastNet.body.result.isDict THEN lastNet.body.result ELSE NoResult

\* C14: for an answer with status 1 the count of successfully sent
\* transactions is the length of result.success, for an answer with status 2
\* it is the length of result.successes, whether each of the two keys is
\* present, absent or empty.
C14_AcceptedKeyByStatus ==
    /\ AnsweredStatus(1) =>
          /\ successful_transactions_count = ListLen(AnsweredResult.success)
          /\ outcome.accepted = ListLen(AnsweredResult.success)
    /\ AnsweredStatus(2) =>
          /\ successful_transactions_count = ListLen(AnsweredResult.successes)
          /\ outcome.accepted = ListLen(AnsweredResult.successes)

\* C15: for an answer with status 1 or 2 the three classes are counted
\* apart: accepted is the length of the success list (success or
\* successes), rejected the length of result.fail, duplicate the length of
\* result.already_exist; the ids of fail and already_exist add nothing to
\* the accepted count, so success [t1], fail [], already_exist [t2] gives
\* one accepted, one duplicate and no rejected.
C15_ClassesCountedApart ==
    (AnsweredStatus(1) \/ AnsweredStatus(2)) =>
      /\ outcome.class = "classified"
      /\ outcome.accepted \in { ListLen(AnsweredResult.success),
                                ListLen(AnsweredResult.successes) }
      /\ outcome.rejected = ListLen(AnsweredResult.fail)
      /\ outcome.duplicate = ListLen(AnsweredResult.already_exist)
      /\ successful_transactions_count = outcome.accepted
      /\ (ListLen(AnsweredResult.success) = 0
            /\ ListLen(AnsweredResult.successes) = 0) => outcome.accepted = 0
      /\ AnsweredResult = OneAcceptedOneDuplicate =>
            /\ outcome.accepted = 1
            /\ outcome.duplicate = 1
            /\ outcome.rejected = 0

\* a batch of two records answered with success [t1], fail [] and
\* already_exist [t2]
C15_Witness ==
    /\ AnsweredStatus(1)
    /\ AnsweredResult = OneAcceptedOneDuplicate
    /\ Len(folder_transactions) = 2
    /\ successful_transactions_count = 1

\* the folder's request got an answer that has no status 1 or 2: status 0,
\* another status, no status field, or a body that is no object
ErrorAnswer ==
    /\ lastNet.kind = "ok"
    /\ \/ ~lastNet.body.isDict
       \/ ~lastNet.body.hasStatus
       \/ lastNet.body.status \notin {StatusOf("int", 1), StatusOf("int", 2)}

\* C16: for an answer with status 0, with a status other than 0, 1, 2, or
\* without the expected shape, the folder's accepted count is zero whatever
\* lists the answer carries, the outcome is reported as an error, and
\* nothing is raised out of _process_folder.
C16_ErrorAnswerCountsZero ==
    ErrorAnswer =>
      /\ pc # "crashed"
      /\ step = "report"
      /\ successful_transactions_count = 0
      /\ outcome.accepted = 0
      /\ outcome.class \in {"rejected", "protocol", "unknown_status"}

\* the folder's request met a connection error, a response with a status
\* code outside 200..299, or a 2xx response whose body is no JSON
TransportFailure ==
    lastNet.kind \in {"connection_error", "http_error", "http_3xx", "bad_json"}

\* C17: send_transactions never raises: a connection error, a non-2xx HTTP
\* status and a 2xx response with a body that is no JSON each give a result
\* with success = false, reported as a transport error apart from every
\* status-coded outcome, and the folder counts zero accepted transactions.
C17_TransportFailureNotSuccess ==
    TransportFailure =>
      /\ pc # "crashed"
      /\ step = "report"
      /\ ~send_transactions(lastNet).success
      /\ outcome.class = "transport"
      /\ successful_transactions_count = 0

\* a string without its underscores and spaces
RECURSIVE Squeeze(_)
Squeeze(s) ==
    IF s = <<>> THEN <<>>
    ELSE IF Head(s) \in {"_", " "} THEN Squeeze(Tail(s))
    ELSE <<Head(s)>> \o Squeeze(Tail(s))
\* two names differ by letter case, underscores and spaces only
SameColumnName(x, y) == EqualIgnoringCase(Squeeze(x), Squeeze(y))
\* the pairs (candidate, header) of a call that name the same column
Hits(args) ==
    { h \in (1..Len(args.possible_names)) \X (1..Len(args.columns)) :
        SameColumnName(args.columns[h[2]], args.possible_names[h[1]]) }

\* C18: find_column_by_names returns the first header, candidates taken in
\* priority order and for each candidate the headers in table order, that
\* equals the candidate after lower-casing and removing underscores and
\* spaces; it returns None when no header matches, and changes nothing.
C18_FirstMatchingHeader ==
    [][IsCall("find_column") =>
        LET args == lastCall'.name
            r == lastCall'.result
        IN  /\ Hits(args) = {} => r = NoColumn
            /\ Hits(args) # {} =>
                  \E h \in Hits(args) :
                    /\ r = args.columns[h[2]]
                    /\ \A g \in Hits(args) :
                          h[1] < g[1] \/ (h[1] = g[1] /\ h[2] <= g[2])
            /\ UNCHANGED <<pc, storeVars, diskVars, runVars>>]_vars

\* the second header is returned: it differs from the first candidate by
\* case and an underscore, while the first header is the second candidate
\* but for a space
C18_Witness ==
    /\ lastCall.op = "find_column"
    /\ lastCall.name.possible_names = << <<"a", "_", "a">>, <<"a">> >>
    /\ lastCall.name.columns = << <<"a", " ">>, <<"A", "a">> >>
    /\ lastCall.result = <<"A", "a">>

\* an ISO-8601 text that names the year, month, day, hour, minute and
\* second of the instant t
DenotesInstant(str, t) ==
    /\ Len(str) >= 11
    /\ \A i \in {1, 3, 5, 7, 9, 11} : str[i].k = "num"
    /\ <<str[1].n, str[3].n, str[5].n, str[7].n, str[9].n, str[11].n>>
         = <<t.Y, t.m, t.d, t.H, t.M, t.S>>
    /\ <<str[2], str[4], str[6], str[8], str[10]>>
         = <<Sep("-"), Sep("-"), Sep("T"), Sep(":"), Sep(":")>>

\* C19: for every format of DATE_FORMATS and every instant the format can
\* write, normalize_date_format of the instant written per that format is
\* an ISO-8601 text of the same instant (same year, month, day, hour,
\* minute, second), the day-first and month-first slash formats included.
C19_FormatsRoundTrip ==
    (lastCall.op = "normalize_formatted") =>
      /\ ~lastCall.result.none
      /\ DenotesInstant(lastCall.result.s, lastCall.name.t)

\* no format and no fallback parser reads the date cell
UnreadableDate(cell) == cell \in {NotADateCell, BlankDateCell}
\* the row is valid whatever its date cell holds
ValidButDate(row) == [row EXCEPT !.datetime = GoodDateCell] = RowValid
\* the file loop handles a file whose table is read and extracted
Extracting ==
    /\ InFolder /\ step = "parse"
    /\ ~TokenIsEmpty(get_org_id_by_folder_name(org_mapping, CurFolder))

\* C20: a date cell that no format and no fallback parser reads ("not-a-date",
\* a blank cell) makes normalize_date_format return None without raising,
\* and the row is still extracted: its record has no datetime value, and
\* the row counts as extracted, not as failed.
C20_UnreadableDateKeepsRow ==
    [][(Extracting /\ step' # "parse" /\ lastTable'.readable
          /\ SemanticColumns \subseteq lastTable'.columns) =>
        LET rows == lastTable'.rows
            kept == { i \in 1..Len(rows) : ValidButDate(rows[i]) }
            new == SubSeq(folder_transactions', Len(folder_transactions) + 1,
                          Len(folder_transactions'))
        IN  /\ \A i \in 1..Len(rows) :
                  UnreadableDate(rows[i].datetime) =>
                    normalize_date_format(rows[i].datetime) = NoDate
            /\ stats'.extracted = stats.extracted + Cardinality(kept)
            /\ stats'.failed = stats.failed + Len(rows) - Cardinality(kept)
            /\ Len(new) = Cardinality(kept)
            /\ (\A i \in 1..Len(rows) : ValidButDate(rows[i])) =>
                  \A i \in 1..Len(rows) :
                    /\ new[i].card_number = CardOk
                    /\ UnreadableDate(rows[i].datetime) => new[i].datetime = NoDate
                    /\ ~UnreadableDate(rows[i].datetime) => ~new[i].datetime.none]_vars

\* a file of two rows, one with "not-a-date" and one with a blank date
\* cell, gave two records without datetime and no failed row
C20_Witness ==
    /\ InFolder
    /\ lastTable = BadDatesTable
    /\ stats.processed = 1
    /\ stats.extracted = 2
    /\ stats.failed = 0
    /\ Len(folder_transactions) = 2
    /\ \A i \in 1..2 : folder_transactions[i].datetime = NoDate

\* _extract_transactions was called on a table
Extracted == lastCall.op = "extract"
\* the first and the last character of s that is no blank
FirstNonBlank(s) == CHOOSE i \in 1..Len(s) : s[i] # " " /\ \A j \in 1..(i - 1) : s[j] = " "
LastNonBlank(s) == CHOOSE i \in 1..Len(s) : s[i] # " " /\ \A j \in (i + 1)..Len(s) : s[j] = " "
Trimmed(s) ==
    IF \A i \in 1..Len(s) : s[i] = " " THEN <<>>
    ELSE SubSeq(s, FirstNonBlank(s), LastNonBlank(s))
\* the card cell passes the card check the claim states
CardAccepted(cell) ==
    /\ ~cell.na
    /\ Trimmed(cell.s) # <<>>
    /\ Len(Trimmed(cell.s)) = 19
    /\ SubSeq(Trimmed(cell.s), 1, 4) = <<"9", "6", "4", "3">>
\* price and discount of the row are numbers
NumbersFine(row) ==
    /\ row.total_price.k \in {"num", "numtext"}
    /\ row.total_discount.k \in {"num", "numtext"}

\* C21: a row passes the card check exactly when its card cell, trimmed, is
\* non-empty, has 19 characters and starts with "9643"; any other row is
\* skipped and counted as failed; every record of an output list has a
\* card_number of 19 characters starting with "9643".
C21_CardCheck ==
    Extracted =>
      LET rows == lastCall.name
          res == lastCall.result
      IN  /\ \A k \in 1..Len(res.transactions) :
                /\ Len(res.transactions[k].card_number) = 19
                /\ SubSeq(res.transactions[k].card_number, 1, 4) = <<"9", "6", "4", "3">>
          /\ res.failed_count >=
                Cardinality({ i \in 1..Len(rows) : ~CardAccepted(rows[i].id_card) })
          /\ (Len(rows) = 1 /\ NumbersFine(rows[1])) =>
                /\ CardAccepted(rows[1].id_card) <=> res.extracted_count = 1
                /\ ~CardAccepted(rows[1].id_card) <=> res.failed_count = 1
                /\ rows[1].id_card.s = CardOk => res.extracted_count = 1
                /\ rows[1].id_card.s \in {CardWrongPrefix, CardShort}
                      => res.failed_count = 1

\* a table of the valid card between blanks and a card with another prefix
\* gave one record, with the trimmed card, and one failed row
C21_Witness ==
    /\ Extracted
    /\ Len(lastCall.name) = 2
    /\ lastCall.name[1].id_card = CardCell(FALSE, <<" ">> \o CardOk \o <<" ">>)
    /\ lastCall.name[2].id_card = CardCell(FALSE, CardWrongPrefix)
    /\ lastCall.result.extracted_count = 1
    /\ lastCall.result.failed_count = 1
    /\ lastCall.result.transactions[1].card_number = CardOk

\* C22: every record of an output list of _extract_transactions has a finite
\* total_price; a row whose price cell is blank, is text that is no number,
\* or is NaN or an infinity is skipped and counted as failed.
C22_PriceFinite ==
    Extracted =>
      LET rows == lastCall.name
          res == lastCall.result
      IN  /\ \A k \in 1..Len(res.transactions) :
                res.transactions[k].total_price.k = "num"
          /\ res.failed_count >=
                Cardinality({ i \in 1..Len(rows) :
                                rows[i].total_price.k \in {"nan", "inf", "text"} })

\* C23: in a table without a discount column, a row with a valid card and
\* the price 12.5 is extracted into a record whose total_discount is 0.0.
C23_NoDiscountColumnZero ==
    [][(Extracting /\ step' # "parse" /\ lastTable' = NoDiscountTable) =>
        /\ stats'.extracted = stats.extracted + 1
        /\ stats'.failed = stats.failed
        /\ Len(folder_transactions') = Len(folder_transactions) + 1
        /\ folder_transactions'[Len(folder_transactions')].total_discount
              = NumCell("num", 0)]_vars

\* the table is of a file that cannot be read, or lacks a column
UnusableTable(table) == ~table.readable \/ ~(SemanticColumns \subseteq table.columns)

\* C24: parse_file_detailed returns no record list and the counts 0/0 for a
\* file that cannot be read and for a table lacking a required column, and
\* the folder counts the file under errors; for a readable table with all
\* columns and no rows it returns an empty list and the counts 0/0, and the
\* folder counts the file under success.
C24_UnreadableIsNotEmpty ==
    [][(Extracting /\ step' # "parse") =>
        LET table == lastTable'
            r == parse_file_detailed(org_mapping, CurFolder, table)
        IN  /\ UnusableTable(table) =>
                  /\ r.isNone /\ r.extracted_count = 0 /\ r.failed_count = 0
                  /\ stats' = [stats EXCEPT !.processed = @ + 1, !.errors = @ + 1]
                  /\ folder_transactions' = folder_transactions
            /\ table = EmptyTable =>
                  /\ ~r.isNone /\ r.transactions = <<>>
                  /\ r.extracted_count = 0 /\ r.failed_count = 0
                  /\ stats' = [stats EXCEPT !.processed = @ + 1, !.success = @ + 1]
                  /\ folder_transactions' = folder_transactions]_vars

\* a folder with a usable token whose first file could not be read and
\* whose second file had no rows: one file under errors, one under success
C24_Witness ==
    /\ InFolder
    /\ ~TokenIsEmpty(get_org_id_by_folder_name(org_mapping, CurFolder))
    /\ lastTable = EmptyTable
    /\ stats = StatsOf(2, 1, 1, 0, 0)
    /\ folder_transactions = <<>>

\* how often f is in the list fs
RECURSIVE Occurrences(_, _)
Occurrences(fs, f) ==
    IF fs = <<>> THEN 0
    ELSE (IF Head(fs) = f THEN 1 ELSE 0) + Occurrences(Tail(fs), f)

RECURSIVE DaysBeforeMonth(_, _)
DaysBeforeMonth(Y, m) ==
    IF m = 1 THEN 0 ELSE DaysBeforeMonth(Y, m - 1) + DaysInMonth(Y, m - 1)
Ordinal(t) ==
    365 * (t.Y - 1) + ((t.Y - 1) \div 4) - ((t.Y - 1) \div 100)
      + ((t.Y - 1) \div 400) + DaysBeforeMonth(t.Y, t.m) + t.d
\* 9999-12-31, the last day a datetime can hold
LastDay(t) == t.Y = 9999 /\ t.m = 12 /\ t.d = 31
\* build_received_time_filter was called
FilterBuilt == lastCall.op = "build_filter"
\* the result is the filter and the upper bound the claim states
FilterAsStated(start, end, res) ==
    /\ res.raised = "none"
    /\ Ordinal(res.end_exclusive) = Ordinal(end) + 1
    /\ res.end_exclusive.H = 0 /\ res.end_exclusive.M = 0
    /\ res.end_exclusive.S = 0 /\ res.end_exclusive.f = 0
    /\ Greater(res.end_exclusive, end)
    /\ res.filter_str =
          <<"[ReceivedTime] >= '">> \o outlook_us_datetime_str(start)
            \o <<"' AND [ReceivedTime] < '">>
            \o outlook_us_datetime_str(res.end_exclusive) \o <<"'">>

\* C26 as stated: for every start <= end build_received_time_filter returns
\* midnight of the day after end's date as the exclusive upper bound, and
\* the filter ReceivedTime >= start and ReceivedTime < that bound; for every
\* start > end it raises ValueError.
C26_AsStated ==
    FilterBuilt =>
      LET start == lastCall.name.start
          end == lastCall.name.end
          res == lastCall.result
      IN  IF Greater(start, end) THEN res.raised = "ValueError"
          ELSE FilterAsStated(start, end, res)

\* C26: the same for every end before 9999-12-31; an end on 9999-12-31 has
\* no day after it, and the call raises OverflowError for every start <= end.
C26_FilterCoversLastDay ==
    FilterBuilt =>
      LET start == lastCall.name.start
          end == lastCall.name.end
          res == lastCall.result
      IN  IF Greater(start, end) THEN res.raised = "ValueError"
          ELSE IF LastDay(end) THEN res.raised = "OverflowError"
          ELSE FilterAsStated(start, end, res)

\* from 2024-03-01 00:00:00 to 2024-03-05 23:59:59 the bound is 2024-03-06
\* 00:00:00 and the filter ends with "03/06/2024 12:00 AM"
C26_Witness ==
    /\ FilterBuilt
    /\ lastCall.name.start = DateTimeOf(2024, 3, 1, 0, 0, 0, 0)
    /\ lastCall.name.end = DateTimeOf(2024, 3, 5, 23, 59, 59, 0)
    /\ lastCall.result.raised = "none"
    /\ lastCall.result.end_exclusive = DateTimeOf(2024, 3, 6, 0, 0, 0, 0)
    /\ lastCall.result.filter_str =
          <<"[ReceivedTime] >= '",
            "0", "3", "/", "0", "1", "/", "2", "0", "2", "4", " ",
            "1", "2", ":", "0", "0", " ", "A", "M",
            "' AND [ReceivedTime] < '",
            "0", "3", "/", "0", "6", "/", "2", "0", "2", "4", " ",
            "1", "2", ":", "0", "0", " ", "A", "M", "'">>

\* the number a sequence of digits writes
RECURSIVE ValueOf(_)
ValueOf(digits) ==
    IF digits = <<>> THEN 0
    ELSE 10 * ValueOf(SubSeq(digits, 1, Len(digits) - 1))
           + (CHOOSE n \in 0..9 : DigitChars[n + 1] = digits[Len(digits)])
IsDigits(str) ==
    \A i \in 1..Len(str) : \E n \in 0..9 : DigitChars[n + 1] = str[i]
\* the hour of the 12-hour clock and its half of the day
ClockHour(H) ==
    IF H = 0 THEN 12 ELSE IF H <= 12 THEN H ELSE H - 12
HalfOfDay(H) == IF H <= 11 THEN <<"A", "M">> ELSE <<"P", "M">>

\* C27: outlook_us_datetime_str writes MM/DD/YYYY hh:mm AM|PM with
\* zero-padded fields and a 12-hour clock: hour 0 is 12 AM, hours 1 to 11
\* the same hour AM, hour 12 is 12 PM, hours 13 to 23 the hour minus 12 PM;
\* the seconds are dropped.
C27_UsTwelveHourClock ==
    lastCall.op = "outlook_str" =>
      LET dt == lastCall.name
          str == lastCall.result
      IN  /\ Len(str) = 19
          /\ str[3] = "/" /\ str[6] = "/" /\ str[11] = " "
          /\ str[14] = ":" /\ str[17] = " "
          /\ \A part \in {<<1, 2>>, <<4, 5>>, <<7, 10>>, <<12, 13>>, <<15, 16>>} :
                IsDigits(SubSeq(str, part[1], part[2]))
          /\ ValueOf(SubSeq(str, 1, 2)) = dt.m
          /\ ValueOf(SubSeq(str, 4, 5)) = dt.d
          /\ ValueOf(SubSeq(str, 7, 10)) = dt.Y
          /\ ValueOf(SubSeq(str, 12, 13)) = ClockHour(dt.H)
          /\ ValueOf(SubSeq(str, 15, 16)) = dt.M
          /\ SubSeq(str, 18, 19) = HalfOfDay(dt.H)
          /\ str = outlook_us_datetime_str([dt EXCEPT !.S = 0])

\* 2025-05-09 15:07 was written "05/09/2025 03:07 PM"
C27_Witness ==
    /\ lastCall.op = "outlook_str"
    /\ lastCall.name = DateTimeOf(2025, 5, 9, 15, 7, 59, 0)
    /\ lastCall.result =
          <<"0", "5", "/", "0", "9", "/", "2", "0", "2", "5", " ",
            "0", "3", ":", "0", "7", " ", "P", "M">>

\* the row is one the claim has skipped: its card fails the card check, or
\* its price or its discount is text that is no number
SkippedRow(row) ==
    \/ ~CardAccepted(row.id_card)
    \/ row.total_price.k = "text"
    \/ row.total_discount.k = "text"
\* the rows of a table that are not skipped, in table order
RECURSIVE KeptRows(_)
KeptRows(rows) ==
    IF rows = <<>> THEN <<>>
    ELSE IF SkippedRow(Head(rows)) THEN KeptRows(Tail(rows))
         ELSE <<Head(rows)>> \o KeptRows(Tail(rows))
\* the record is of the row: same card, same price, same discount, a date
\* exactly when the row has a readable one
RecordOfRow(record, row) ==
    /\ record.card_number = Trimmed(row.id_card.s)
    /\ record.total_price.v = row.total_price.v
    /\ record.total_price.k =
          (IF row.total_price.k = "numtext" THEN "num" ELSE row.total_price.k)
    /\ record.total_discount.v = row.total_discount.v
    /\ record.datetime.none <=> UnreadableDate(row.datetime)

\* C28: _extract_transactions returns records and counts with extracted =
\* number of records and extracted + failed = number of rows; the records
\* are those of the rows not skipped, in table order; a skipped row has no
\* record and does not stop the rows after it.
C28_CountsAndOrder ==
    Extracted =>
      LET rows == lastCall.name
          res == lastCall.result
          kept == KeptRows(rows)
      IN  /\ ~res.isNone
          /\ res.extracted_count = Len(res.transactions)
          /\ res.extracted_count + res.failed_count = Len(rows)
          /\ Len(res.transactions) = Len(kept)
          /\ \A k \in 1..Len(kept) : RecordOfRow(res.transactions[k], kept[k])

\* a table whose first row has the text "abc" as price and whose second row
\* has the price 3.0: one failed row, and the record of the second row
C28_Witness ==
    /\ Extracted
    /\ Len(lastCall.name) = 2
    /\ lastCall.name[1].total_price = NumCell("text", 0)
    /\ lastCall.name[2] =
          RowOf(GoodDateCell, CardCell(FALSE, CardOk), NumCell("num", 300),
                NumCell("num", 0))
    /\ lastCall.result.extracted_count = 1
    /\ lastCall.result.failed_count = 1
    /\ lastCall.result.transactions[1].total_price = NumCell("num", 300)

\* C29: every submitted batch holds records of one organization folder: the
\* files its records come from all lie beneath one directory immediately
\* under the root, and the request carries the name of that directory.
C29_BatchOfOneFolder ==
    [][(Len(requests') = Len(requests) + 1) =>
        \A path \in batch_dirs :
          /\ path # <<>>
          /\ path[1] = requests'[Len(requests')].folder]_vars

\* the folder entries a mapping file holds: those under the key
\* "organization_mappings" and those written at the top level of the object
FileEntries(f) ==
    { f.map[i] : i \in 1..Len(f.map) } \cup { f.other[i] : i \in 1..Len(f.other) }

\* C30: a run never loses an entry of the mapping file: every folder entry
\* the file holds is still in the file, with the same key and the same
\* data, after every step of the run, whatever the file held at the start
\* and whichever folders the run provisions.
C30_RunKeepsFileEntries ==
    [][FileEntries(mappingFile) \subseteq FileEntries(mappingFile')]_vars

====
